---- MODULE Spec2Model ----
(***************************************************************************)
(* Connector indexing pipeline of the SurfSense backend:                   *)
(*   app/routes/search_source_connectors_routes.py  (trigger, dispatch,    *)
(*                                                   watermark update)     *)
(*   app/tasks/connectors_indexing_tasks.py         (index_slack_messages, *)
(*                                                   index_notion_pages)   *)
(* Time is a clock of ticks, DayLen ticks to a calendar day.  The source   *)
(* data of the provider is a fixed list of containers, each a list of      *)
(* timestamped items; an item exists from its timestamp on.                *)
(***************************************************************************)
EXTENDS Integers, Sequences, FiniteSets, TLC

\* ---------------------------------------------------------------- bounds
MaxClock == 2
DayLen == 2
MaxRuns == 2
MaxContainers == 2
MaxFaults == 1
MaxSpaces == 1
MaxUsers == 2
MaxRequests == 2
MaxConnectors == 2
\* Block trees: levels of nesting, children of one block, blocks of a page
MaxDepth == 3
MaxBlocks == 2
MaxTop == 1

\* ------------------------------------------------------ program constants
NeverSyncedDays == 365
SlackLookbackDays == 7
NotionLookbackDays == 1
PreviewLookbackDays == 1

VARIABLES now, connectors, source, runs, documents, faults, response,
          requests, next_id, tree, rendered

vars == <<now, connectors, source, runs, documents, faults, response,
          requests, next_id, tree, rendered>>

\* --------------------------------------------------------------- values
None == <<>>
Some(x) == <<x>>
NoMessage == "None"

SLACK == "SLACK_CONNECTOR"
NOTION == "NOTION_CONNECTOR"
GITHUB == "GITHUB_CONNECTOR"
LINEAR == "LINEAR_CONNECTOR"

ConnectorTypes ==
    {"SERPER_API", "TAVILY_API", SLACK, NOTION, GITHUB, LINEAR}

RequiredKey(type) ==
    CASE type = SLACK -> "SLACK_BOT_TOKEN"
      [] type = NOTION -> "NOTION_INTEGRATION_TOKEN"
      [] OTHER -> "API_KEY"

ConnectorId == 1
OwnerId == 1
RunIds == 1 .. MaxRuns
Users == 1 .. MaxUsers
SearchSpaces == 1 .. MaxSpaces

\* The search spaces a request can name: those of the connector's owner and
\* one of another user
RequestSpaces == 1 .. (MaxSpaces + 1)
SpaceOwner(s) == IF s \in SearchSpaces THEN OwnerId ELSE OwnerId + 1

\* The request handlers that can be in progress at once
Handlers == 1 .. MaxRequests

\* A handler that serves no request
NoRequest == [op |-> "", stage |-> "", user |-> 0, connector_type |-> "",
              connector_id |-> 0, status |-> 0]

\* The connector types the create and update requests ask for
RequestTypes == {SLACK, NOTION}

\* The storage session of a request (Depends(get_async_session))
RequestSession == 0

Days(n) == n * DayLen
Date(t) == t \div DayLen

\* ---------------------------------------------------------- source data
NoiseSubtypes == {"bot_message", "channel_join", "channel_leave"}

Msg(t) == [ts |-> t, subtype |-> "message"]
Bot(t) == [ts |-> t, subtype |-> "bot_message"]

ContainerOptions ==
    { <<>>,
      <<Bot(-1)>>,
      <<Msg(-1)>>,
      <<Msg(-1), Bot(0), Msg(1)>> }

SourceOptions ==
    UNION { [1 .. n -> ContainerOptions] : n \in 0 .. MaxContainers }

ChannelName(c) == <<"name", c>>

\* ------------------------------------------------------------- responses
\* indexing_from / indexing_to of the acknowledgment: None, the text
\* "365 days ago", or a "%Y-%m-%d" date
NoDate == [kind |-> "none", value |-> 0]
DaysAgo(n) == [kind |-> "days ago", value |-> n]
DateStr(d) == [kind |-> "date", value |-> d]

\* The answer to a request, a JSON body with status 200 or an HTTPException,
\* with the request it answers (user, connector_id, search_space_id), the
\* task it added and the last_indexed_at it read
NoResponse ==
    [status |-> 0, message |-> "", user |-> 0, connector_id |-> 0,
     search_space_id |-> 0, indexing_from |-> NoDate, indexing_to |-> NoDate,
     run |-> 0, watermark |-> None]

HTTPException(status_code, detail, u, c, s) ==
    [NoResponse EXCEPT !.status = status_code, !.message = detail,
                       !.user = u, !.connector_id = c, !.search_space_id = s]

\* ------------------------------------------------------------------ runs
IdleRun ==
    [pc |-> "idle", kind |-> "", connector_id |-> 0, search_space_id |-> 0,
     session |-> None, fetched |-> {},
     started_at |-> None, watermark_at_start |-> None,
     start_date |-> 0, end_date |-> 0,
     start_date_str |-> 0, end_date_str |-> 0,
     channels |-> <<>>, i |-> 1,
     documents_indexed |-> 0, skipped |-> <<>>, pending |-> <<>>,
     update_last_indexed |-> FALSE,
     count |-> 0, message |-> NoMessage,
     wrote |-> None]

\* ------------------------------------------------------------------ Init
Init ==
    /\ now = 0
    /\ \E type \in ConnectorTypes :
          \E keys \in {{}, {RequiredKey(type)}} :
             connectors = (ConnectorId :>
                 [connector_type |-> type, config |-> keys,
                  user_id |-> OwnerId, last_indexed_at |-> None])
    /\ source \in SourceOptions
    /\ connectors[ConnectorId].connector_type \notin {SLACK, NOTION}
          => source = <<>>
    /\ runs = [r \in RunIds |-> IdleRun]
    /\ documents = {}
    /\ faults = 0
    /\ response = NoResponse
    /\ requests = [h \in Handlers |-> NoRequest]
    /\ next_id = ConnectorId + 1
    /\ tree = <<>>
    /\ rendered = None

\* ----------------------------------------------------------------- clock
Tick ==
    /\ now < MaxClock
    /\ now' = now + 1
    /\ UNCHANGED <<connectors, source, runs, documents, faults, response,
                   requests, next_id,
                   tree, rendered>>

\* ------------------------------------------------------- connector CRUD
\* check_ownership(session, SearchSourceConnector, connector_id, user): the
\* row exists and belongs to the user, otherwise 404
OwnsConnector(u, c) ==
    c \in DOMAIN connectors /\ connectors[c].user_id = u

\* check_ownership(session, SearchSpace, search_space_id, user)
OwnsSpace(u, s) == SpaceOwner(s) = u

NotFound(u, c, s) == HTTPException(404, "not found", u, c, s)

\* DELETE /search-source-connectors/{connector_id}
delete_search_source_connector(u, c) ==
    /\ IF OwnsConnector(u, c)
       THEN /\ faults < MaxFaults
            /\ faults' = faults + 1
            /\ connectors' = [d \in DOMAIN connectors \ {c} |-> connectors[d]]
            /\ response' = [NoResponse EXCEPT !.status = 200,
                                              !.message = "deleted",
                                              !.user = u, !.connector_id = c]
       ELSE /\ response' = NotFound(u, c, 0)
            /\ UNCHANGED <<connectors, faults>>
    /\ UNCHANGED <<now, source, runs, documents, requests, next_id,
                   tree, rendered>>

\* select(SearchSourceConnector).filter(user_id == user.id,
\*     connector_type == type [, id != connector_id]): the rows found
existing_connector(rows, u, type, except) ==
    {d \in DOMAIN rows \ {except} :
        rows[d].user_id = u /\ rows[d].connector_type = type}

\* The table's unique constraint on (user_id, connector_type): a commit that
\* would store a second row of the pair raises IntegrityError
IntegrityError(rows, u, type, except) ==
    \E d \in DOMAIN rows \ {except} :
        rows[d].user_id = u /\ rows[d].connector_type = type

\* A handler that is free to serve a request
Free(h) == requests[h].stage \in {"", "done"}

\* The handler's request answered with a status
Answered(req, status_code) ==
    [req EXCEPT !.stage = "done", !.status = status_code]

\* The HTTP answer to a handler's request
Answer(req, detail) ==
    HTTPException(req.status, detail, req.user, req.connector_id, 0)

\* The creates that passed their check and have not committed
Creating == {h \in Handlers : requests[h].op = "create"
                               /\ requests[h].stage = "commit"}

\* POST /search-source-connectors/ up to the check for an existing connector
CreateCheck(req) ==
    IF existing_connector(connectors, req.user, req.connector_type, 0) # {}
    THEN Answered(req, 409)
    ELSE [req EXCEPT !.stage = "commit"]

create_search_source_connector(h, u, type) ==
    /\ Free(h)
    /\ next_id + Cardinality(Creating) <= MaxConnectors
    /\ LET req == CreateCheck([NoRequest EXCEPT !.op = "create",
                                                !.stage = "check",
                                                !.user = u,
                                                !.connector_type = type])
       IN  /\ requests' = [requests EXCEPT ![h] = req]
           /\ response' = IF req.stage = "done"
                           THEN Answer(req, "already exists")
                           ELSE response
    /\ UNCHANGED <<now, connectors, source, runs, documents, faults, next_id,
                   tree, rendered>>

\* (mutant) the commit of a create stores the row whatever the table holds
CreateCommitStoresAnyway(req) ==
    Answered([req EXCEPT !.connector_id = next_id], 200)

\* session.add(db_connector); await session.commit(), and the handlers of
\* what the commit raises
CreateCommit(req) ==
    IF IntegrityError(connectors, req.user, req.connector_type, 0)
    THEN Answered(req, 409)
    ELSE Answered([req EXCEPT !.connector_id = next_id], 200)

create_search_source_connector_commit(h) ==
    /\ requests[h].op = "create" /\ requests[h].stage = "commit"
    /\ LET req == CreateCommit(requests[h])
       IN  /\ requests' = [requests EXCEPT ![h] = req]
           /\ response' = Answer(req, IF req.status = 200 THEN "created"
                                      ELSE "Integrity error")
           /\ IF req.status = 200
              THEN /\ connectors' =
                        [d \in DOMAIN connectors \cup {next_id} |->
                            IF d = next_id
                            THEN [connector_type |-> req.connector_type,
                                  config |-> {},
                                  user_id |-> req.user,
                                  last_indexed_at |-> None]
                            ELSE connectors[d]]
                   /\ next_id' = next_id + 1
              ELSE UNCHANGED <<connectors, next_id>>
    /\ UNCHANGED <<now, source, runs, documents, faults,
                   tree, rendered>>

\* PUT /search-source-connectors/{connector_id} up to the check made when
\* the connector type is being changed
UpdateCheck(req) ==
    IF ~ OwnsConnector(req.user, req.connector_id) THEN Answered(req, 404)
    ELSE IF /\ req.connector_type
                 # connectors[req.connector_id].connector_type
            /\ existing_connector(connectors, req.user, req.connector_type,
                                  req.connector_id) # {}
    THEN Answered(req, 409)
    ELSE [req EXCEPT !.stage = "commit"]

update_search_source_connector(h, u, c, type) ==
    /\ Free(h)
    /\ LET req == UpdateCheck([NoRequest EXCEPT !.op = "update",
                                                !.stage = "check",
                                                !.user = u,
                                                !.connector_type = type,
                                                !.connector_id = c])
       IN  /\ requests' = [requests EXCEPT ![h] = req]
           /\ response' = IF req.stage = "done"
                           THEN Answer(req, IF req.status = 404
                                            THEN "not found"
                                            ELSE "already exists")
                           ELSE response
    /\ UNCHANGED <<now, connectors, source, runs, documents, faults, next_id,
                   tree, rendered>>

\* setattr(db_connector, key, value); await session.commit(), and the
\* handlers of what the commit raises; a row that was deleted meanwhile
\* cannot be updated
UpdateCommit(req) ==
    IF req.connector_id \notin DOMAIN connectors THEN Answered(req, 500)
    ELSE IF IntegrityError(connectors, req.user, req.connector_type,
                           req.connector_id)
    THEN Answered(req, 409)
    ELSE Answered(req, 200)

update_search_source_connector_commit(h) ==
    /\ requests[h].op = "update" /\ requests[h].stage = "commit"
    /\ LET req == UpdateCommit(requests[h])
       IN  /\ requests' = [requests EXCEPT ![h] = req]
           /\ response' = Answer(req, CASE req.status = 200 -> "updated"
                                        [] req.status = 409 -> "Integrity error"
                                        [] OTHER -> "Failed to update")
           /\ connectors' =
                 IF req.status = 200
                 THEN [connectors EXCEPT ![req.connector_id].connector_type =
                                            req.connector_type]
                 ELSE connectors
    /\ UNCHANGED <<now, source, runs, documents, faults, next_id,
                   tree, rendered>>

\* --------------------------------------------------------------- trigger
\* (mutant) a run is started for a connector of any type
EveryTypeIndexable == ConnectorTypes

\* The connector types index_connector_content has a branch for
IndexableTypes == {SLACK, NOTION, GITHUB, LINEAR}

FreeRun == IF \E r \in RunIds : runs[r].pc = "idle"
           THEN CHOOSE r \in RunIds :
                   /\ runs[r].pc = "idle"
                   /\ \A q \in RunIds : runs[q].pc = "idle" => r <= q
           ELSE 0

\* The start of the range the acknowledgment announces
PreviewFrom(last_indexed_at, t) ==
    IF last_indexed_at = None THEN DaysAgo(NeverSyncedDays)
    ELSE IF Date(last_indexed_at[1]) = Date(t)
    THEN DateStr(Date(t) - PreviewLookbackDays)
    ELSE DateStr(Date(last_indexed_at[1]))

\* The body index_connector_content returns for a connector it indexes
Started(u, c, s, t) ==
    [status |-> 200,
     message |-> "indexing started in the background.",
     user |-> u, connector_id |-> c, search_space_id |-> s,
     indexing_from |->
        IF connectors[c].connector_type = GITHUB THEN NoDate
        ELSE PreviewFrom(connectors[c].last_indexed_at, t),
     indexing_to |-> DateStr(Date(t)),
     run |-> FreeRun,
     watermark |-> connectors[c].last_indexed_at]

\* The answer of index_connector_content: 404 from either ownership check,
\* 500 when the handler itself fails, 400 for a type that is not indexed,
\* the acknowledgment otherwise
IndexResponse(u, c, s, fault, t) ==
    IF fault = "storage"
    THEN HTTPException(500, "Failed to initiate indexing", u, c, s)
    ELSE IF ~ OwnsConnector(u, c) THEN NotFound(u, c, s)
    ELSE IF ~ OwnsSpace(u, s) THEN NotFound(u, c, s)
    ELSE IF connectors[c].connector_type \notin IndexableTypes
    THEN HTTPException(400, "Indexing not supported for connector type",
                       u, c, s)
    ELSE Started(u, c, s, t)

\* background_tasks.add_task(run_..._indexing_with_new_session,
\*                           connector_id, search_space_id)
add_task(resp) ==
    [runs EXCEPT ![FreeRun] =
        [IdleRun EXCEPT
            !.pc = "queued",
            !.kind = connectors[resp.connector_id].connector_type,
            !.connector_id = resp.connector_id,
            !.search_space_id = resp.search_space_id]]

\* POST /search-source-connectors/{connector_id}/index
index_connector_content(u, c, s) ==
    /\ \E fault \in {"none", "storage"} :
          LET resp == IndexResponse(u, c, s, fault, now) IN
          /\ fault # "none" => faults < MaxFaults
          /\ faults' = IF fault # "none" THEN faults + 1 ELSE faults
          /\ response' = resp
          /\ IF resp.status = 200
             THEN FreeRun # 0 /\ runs' = add_task(resp)
             ELSE UNCHANGED runs
    /\ UNCHANGED <<now, connectors, source, documents, requests, next_id,
                   tree, rendered>>

\* ------------------------------------------------------- window planning
\* (mutant) the lookback of a synced connector is used for a never-synced one
SlackDateRangeShort(last_indexed_at, t) ==
    [end_date |-> t,
     start_date |->
        IF last_indexed_at # None
        THEN IF Date(last_indexed_at[1]) = Date(t)
             THEN t - Days(SlackLookbackDays)
             ELSE last_indexed_at[1]
        ELSE t - Days(SlackLookbackDays)]

\* (mutant) a synced connector is always given the lookback window
SlackDateRangeAlwaysLookback(last_indexed_at, t) ==
    [end_date |-> t,
     start_date |->
        IF last_indexed_at # None
        THEN t - Days(SlackLookbackDays)
        ELSE t - Days(NeverSyncedDays)]

\* index_slack_messages, "Calculate date range"
SlackDateRange(last_indexed_at, t) ==
    [end_date |-> t,
     start_date |->
        IF last_indexed_at # None
        THEN IF Date(last_indexed_at[1]) = Date(t)
             THEN t - Days(SlackLookbackDays)
             ELSE last_indexed_at[1]
        ELSE t - Days(NeverSyncedDays)]

\* (mutant) a connector synced today starts from its watermark, no lookback
NotionDateRangeNoLookback(last_indexed_at, t) ==
    [end_date |-> t,
     start_date |->
        IF last_indexed_at # None
        THEN last_indexed_at[1]
        ELSE t - Days(NeverSyncedDays)]

\* index_notion_pages, "Calculate date range"
NotionDateRange(last_indexed_at, t) ==
    [end_date |-> t,
     start_date |->
        IF last_indexed_at # None
        THEN IF Date(last_indexed_at[1]) = Date(t)
             THEN t - Days(NotionLookbackDays)
             ELSE last_indexed_at[1]
        ELSE t - Days(NeverSyncedDays)]

\* strftime("%Y-%m-%d"): the calendar day, the time of day is dropped
SlackFormatDate(t) == Date(t)

\* strftime("%Y-%m-%dT%H:%M:%SZ"): whole seconds; a tick is a whole number of
\* seconds, so every timestamp of the model is kept as it is
NotionFormatDate(t) == t

\* ------------------------------------------------- provider (interfaces)
\* SlackHistory.get_all_channels: every channel of the workspace
get_all_channels == [c \in DOMAIN source |-> c]

\* SlackHistory.get_history_by_date_range at time t: the messages that exist
\* at t and whose day lies between the two date strings
InSlackRange(m, start_str, end_str, t) ==
    m.ts <= t /\ start_str <= Date(m.ts) /\ Date(m.ts) <= end_str

RECURSIVE Filter(_, _, _, _, _)
Filter(items, kind, lo, hi, t) ==
    IF items = <<>> THEN <<>>
    ELSE LET m == Head(items)
             keep == IF kind = SLACK THEN InSlackRange(m, lo, hi, t)
                     ELSE m.ts <= t
         IN  (IF keep THEN <<m>> ELSE <<>>) \o Filter(Tail(items), kind, lo, hi, t)

get_history_by_date_range(c, start_str, end_str, t) ==
    Filter(source[c], SLACK, start_str, end_str, t)

\* The blocks a page holds at time t, and the time of its last edit then (a
\* page without blocks was created at time 0)
PageContent(c, t) == Filter(source[c], NOTION, 0, 0, t)

PageEdited(c, t) ==
    IF PageContent(c, t) = <<>> THEN 0
    ELSE PageContent(c, t)[Len(PageContent(c, t))].ts

\* NotionHistoryConnector.get_all_pages at time t: the pages last edited in
\* [start, end), each with the blocks it holds at t
RECURSIVE PagesFrom(_, _, _, _)
PagesFrom(c, start_str, end_str, t) ==
    IF c > Len(source) THEN <<>>
    ELSE (IF start_str <= PageEdited(c, t) /\ PageEdited(c, t) < end_str
          THEN <<c>> ELSE <<>>) \o PagesFrom(c + 1, start_str, end_str, t)

get_all_pages(start_str, end_str, t) == PagesFrom(1, start_str, end_str, t)

\* ------------------------------------------------------ run bookkeeping
\* "return n, message" of an index_* function
Return(run, n, msg) ==
    [run EXCEPT !.pc = "returned", !.count = n, !.message = msg]

\* (mutant) the skip leaves the loop: break instead of continue
SkipThenBreak(run, c, reason) ==
    [run EXCEPT !.skipped = Append(@, <<c, reason>>),
                !.i = Len(run.channels) + 1]

\* skipped_channels.append(...) / skipped_pages.append(...); continue
Skip(run, c, reason) ==
    [run EXCEPT !.skipped = Append(@, <<c, reason>>), !.i = @ + 1]

\* (mutant) the loop does not move on from a container without items
PassStays(run) == run

\* continue, with nothing recorded
Pass(run) == [run EXCEPT !.i = @ + 1]

\* session.add(document); documents_indexed += 1
Stage(run, doc) ==
    [run EXCEPT !.pending = Append(@, doc),
                !.documents_indexed = @ + 1,
                !.i = @ + 1]

Outcome(run, fired) == [run |-> run, fired |-> fired]

\* --------------------------------------------------- index_slack_messages
\* (mutant) the date range is calculated before the token is looked for
SlackBeginPlansFirst(run, r, fault, t) ==
    LET c == run.connector_id IN
    IF c \notin DOMAIN connectors \/ connectors[c].connector_type # SLACK
    THEN Outcome(Return(run, 0, "Connector not found or is not a Slack connector"), FALSE)
    ELSE LET range == SlackDateRange(connectors[c].last_indexed_at, t)
             planned == [run EXCEPT
                           !.started_at = Some(t),
                           !.watermark_at_start = connectors[c].last_indexed_at,
                           !.start_date = range.start_date,
                           !.end_date = range.end_date,
                           !.start_date_str = SlackFormatDate(range.start_date),
                           !.end_date_str = SlackFormatDate(range.end_date)]
         IN  IF "SLACK_BOT_TOKEN" \notin connectors[c].config
             THEN Outcome(Return(planned, 0, "Slack token not found in connector config"), FALSE)
             ELSE IF fault = "get_all_channels"
             THEN Outcome(Return(planned, 0, "Failed to get Slack channels"), TRUE)
             ELSE IF get_all_channels = <<>>
             THEN Outcome(Return(planned, 0, "No Slack channels found"), FALSE)
             ELSE Outcome([planned EXCEPT !.pc = "containers",
                                          !.channels = get_all_channels], FALSE)

\* From the connector lookup to the channel list
SlackBegin(run, r, fault, t) ==
    LET c == run.connector_id IN
    IF c \notin DOMAIN connectors \/ connectors[c].connector_type # SLACK
    THEN Outcome(Return(run, 0, "Connector not found or is not a Slack connector"), FALSE)
    ELSE IF "SLACK_BOT_TOKEN" \notin connectors[c].config
    THEN Outcome(Return(run, 0, "Slack token not found in connector config"), FALSE)
    ELSE LET range == SlackDateRange(connectors[c].last_indexed_at, t)
             planned == [run EXCEPT
                           !.started_at = Some(t),
                           !.watermark_at_start = connectors[c].last_indexed_at,
                           !.start_date = range.start_date,
                           !.end_date = range.end_date,
                           !.start_date_str = SlackFormatDate(range.start_date),
                           !.end_date_str = SlackFormatDate(range.end_date)]
         IN  IF fault = "get_all_channels"
             THEN Outcome(Return(planned, 0, "Failed to get Slack channels"), TRUE)
             ELSE IF get_all_channels = <<>>
             THEN Outcome(Return(planned, 0, "No Slack channels found"), FALSE)
             ELSE Outcome([planned EXCEPT !.pc = "containers",
                                          !.channels = get_all_channels], FALSE)

\* (mutant) only the joins and the leaves are dropped
IsValidMessageKeepsBots(m) == m.subtype \notin {"channel_join", "channel_leave"}

IsValidMessage(m) == m.subtype \notin NoiseSubtypes

\* SlackHistory.format_message(msg, include_user_info=True): the author, the
\* time and the text of the message
format_message(msg) ==
    [user_name |-> <<"user of", msg.ts>>,
     datetime |-> msg.ts,
     text |-> <<"text of", msg.ts>>]

\* summary_chain.ainvoke({"document": text}): what the summary is a summary
\* of is all the model keeps of it
summarize(text) == <<"summary", text>>

\* config.embedding_model_instance.embed(text), and the embedding a chunk
\* comes with
embed(text) == <<"embedding", text>>

\* config.chunker_instance.chunk(text): one chunk per part of the text, in
\* the order of the text; a text of a heading and a single part is too short
\* to yield a chunk
chunk(text) ==
    IF Len(text) <= 2 THEN <<>>
    ELSE [k \in DOMAIN text |-> [text |-> text[k], embedding |-> embed(text[k])]]

\* [Chunk(content=chunk.text, embedding=chunk.embedding) for chunk in ...]
Chunks(chunked) ==
    [k \in DOMAIN chunked |->
        [content |-> chunked[k].text, embedding |-> chunked[k].embedding]]

\* "Convert messages to markdown format": the heading of the channel, then
\* one section per formatted message
channel_content(c, formatted_messages) ==
    <<<<"# Slack Channel: ", ChannelName(c)>>>> \o
    [k \in DOMAIN formatted_messages |->
        <<"## ", formatted_messages[k].user_name,
          formatted_messages[k].datetime, formatted_messages[k].text>>]

\* "Build the document string" of a channel: the METADATA section and the
\* CONTENT section around the markdown, inside <DOCUMENT>
Slack_combined_document_string(run, c, formatted_messages) ==
    [METADATA |->
        [CHANNEL_NAME |-> ChannelName(c),
         CHANNEL_ID |-> c,
         START_DATE |-> run.start_date_str,
         END_DATE |-> run.end_date_str,
         MESSAGE_COUNT |-> Len(formatted_messages)],
     CONTENT |-> channel_content(c, formatted_messages)]

\* (mutant) the document goes to the first search space, whatever the
\* dispatch named
SlackDocumentInFirstSpace(run, r, c, formatted_messages, chunks) ==
    LET summary_content ==
            summarize(Slack_combined_document_string(run, c, formatted_messages))
        summary_embedding == embed(summary_content)
    IN  [run |-> r,
         search_space_id |-> 1,
         title |-> <<"Slack - ", ChannelName(c)>>,
         document_type |-> SLACK,
         document_metadata |->
            [channel_name |-> ChannelName(c),
             channel_id |-> c,
             start_date |-> run.start_date_str,
             end_date |-> run.end_date_str,
             message_count |-> Len(formatted_messages)],
         content |-> summary_content,
         embedding |-> summary_embedding,
         chunks |-> chunks]

SlackDocument(run, r, c, formatted_messages, chunks) ==
    LET summary_content ==
            summarize(Slack_combined_document_string(run, c, formatted_messages))
        summary_embedding == embed(summary_content)
    IN  [run |-> r,
         search_space_id |-> run.search_space_id,
         title |-> <<"Slack - ", ChannelName(c)>>,
         document_type |-> SLACK,
         document_metadata |->
            [channel_name |-> ChannelName(c),
             channel_id |-> c,
             start_date |-> run.start_date_str,
             end_date |-> run.end_date_str,
             message_count |-> Len(formatted_messages)],
         content |-> summary_content,
         embedding |-> summary_embedding,
         chunks |-> chunks]

\* (mutant) the document is added to the session before the chunker runs
SlackAssembleAddsEarly(run, r, c, formatted_messages, fault) ==
    LET staged == Stage(run, SlackDocument(run, r, c, formatted_messages,
                                   Chunks(chunk(channel_content(c, formatted_messages)))))
    IN  IF fault \in {"summarize", "embed"}
        THEN Outcome(Skip(run, c, "processing error"), TRUE)
        ELSE IF fault = "chunk"
        THEN Outcome([staged EXCEPT
                        !.skipped = Append(@, <<c, "processing error">>),
                        !.documents_indexed = run.documents_indexed], TRUE)
        ELSE Outcome(staged, FALSE)

\* (mutant) an empty chunk list is treated as a failure of the container
SlackAssembleRejectsEmpty(run, r, c, formatted_messages, fault) ==
    IF fault \in {"summarize", "embed", "chunk"}
    THEN Outcome(Skip(run, c, "processing error"), TRUE)
    ELSE IF chunk(channel_content(c, formatted_messages)) = <<>>
    THEN Outcome(Skip(run, c, "processing error"), FALSE)
    ELSE Outcome(Stage(run, SlackDocument(run, r, c, formatted_messages,
                                  Chunks(chunk(channel_content(c, formatted_messages))))), FALSE)

\* From "Generate summary" to session.add(document): an exception of the
\* summarizer, the embedder or the chunker leaves the loop body before the
\* document exists; a chunker that returns no chunk is no exception
SlackAssemble(run, r, c, formatted_messages, fault) ==
    IF fault \in {"summarize", "embed", "chunk"}
    THEN Outcome(Skip(run, c, "processing error"), TRUE)
    ELSE Outcome(Stage(run, SlackDocument(run, r, c, formatted_messages,
                                  Chunks(chunk(channel_content(c, formatted_messages))))), FALSE)

SlackFaults ==
    {"private_not_member", "not_in_channel", "conversations_info",
     "history_error", "get_history", "format_message", "summarize", "embed",
     "chunk"}

\* (mutant) an access error of one channel ends the run
SlackChannelAbortsOnAccessError(run, r, fault, t) ==
    LET c == run.channels[run.i]
        asked == [run EXCEPT !.fetched = @ \cup {c}]
        messages == get_history_by_date_range(c, run.start_date_str,
                                              run.end_date_str, t)
        kept == SelectSeq(messages, IsValidMessage)
        formatted_messages == [k \in DOMAIN kept |-> format_message(kept[k])]
    IN  CASE fault = "private_not_member" ->
               Outcome(Skip(run, c, "private, bot not a member"), TRUE)
          [] fault = "not_in_channel" ->
               Outcome([Return(run, 0, "Failed") EXCEPT !.pending = <<>>], TRUE)
          [] fault = "conversations_info" ->
               Outcome(Skip(run, c, "Slack API error"), TRUE)
          [] fault = "history_error" ->
               Outcome(Skip(asked, c, "error"), TRUE)
          [] fault = "get_history" ->
               Outcome(Skip(asked, c, "Slack API error"), TRUE)
          [] OTHER ->
               IF messages = <<>> THEN Outcome(Pass(asked), FALSE)
               ELSE IF formatted_messages = <<>> THEN Outcome(Pass(asked), FALSE)
               ELSE IF fault = "format_message"
               THEN Outcome(Skip(asked, c, "processing error"), TRUE)
               ELSE SlackAssemble(asked, r, c, formatted_messages, fault)

\* (mutant) the window is calculated again at every channel
SlackChannelPlansAgain(run, r, fault, t) ==
    LET c == run.channels[run.i]
        range == SlackDateRange(run.watermark_at_start, t)
        again == [run EXCEPT
                    !.start_date = range.start_date,
                    !.end_date = range.end_date,
                    !.start_date_str = SlackFormatDate(range.start_date),
                    !.end_date_str = SlackFormatDate(range.end_date)]
        asked == [again EXCEPT !.fetched = @ \cup {c}]
        messages == get_history_by_date_range(c, again.start_date_str,
                                              again.end_date_str, t)
        kept == SelectSeq(messages, IsValidMessage)
        formatted_messages == [k \in DOMAIN kept |-> format_message(kept[k])]
    IN  CASE fault = "private_not_member" ->
               Outcome(Skip(again, c, "private, bot not a member"), TRUE)
          [] fault = "not_in_channel" ->
               Outcome(Skip(again, c, "access error"), TRUE)
          [] fault = "conversations_info" ->
               Outcome(Skip(again, c, "Slack API error"), TRUE)
          [] fault = "history_error" ->
               Outcome(Skip(asked, c, "error"), TRUE)
          [] fault = "get_history" ->
               Outcome(Skip(asked, c, "Slack API error"), TRUE)
          [] OTHER ->
               IF messages = <<>> THEN Outcome(Pass(asked), FALSE)
               ELSE IF formatted_messages = <<>> THEN Outcome(Pass(asked), FALSE)
               ELSE IF fault = "format_message"
               THEN Outcome(Skip(asked, c, "processing error"), TRUE)
               ELSE SlackAssemble(asked, r, c, formatted_messages, fault)

\* One pass of "for channel_name, channel_id in channels.items()"; fetched
\* collects the channels get_history_by_date_range was called for
SlackChannel(run, r, fault, t) ==
    LET c == run.channels[run.i]
        asked == [run EXCEPT !.fetched = @ \cup {c}]
        messages == get_history_by_date_range(c, run.start_date_str,
                                              run.end_date_str, t)
        kept == SelectSeq(messages, IsValidMessage)
        formatted_messages == [k \in DOMAIN kept |-> format_message(kept[k])]
    IN  CASE fault = "private_not_member" ->
               Outcome(Skip(run, c, "private, bot not a member"), TRUE)
          [] fault = "not_in_channel" ->
               Outcome(Skip(run, c, "access error"), TRUE)
          [] fault = "conversations_info" ->
               Outcome(Skip(run, c, "Slack API error"), TRUE)
          [] fault = "history_error" ->
               Outcome(Skip(asked, c, "error"), TRUE)
          [] fault = "get_history" ->
               Outcome(Skip(asked, c, "Slack API error"), TRUE)
          [] OTHER ->
               IF messages = <<>> THEN Outcome(Pass(asked), FALSE)
               ELSE IF formatted_messages = <<>> THEN Outcome(Pass(asked), FALSE)
               ELSE IF fault = "format_message"
               THEN Outcome(Skip(asked, c, "processing error"), TRUE)
               ELSE SlackAssemble(asked, r, c, formatted_messages, fault)

Range(seq) == {seq[k] : k \in DOMAIN seq}

\* (mutant) the handler of a failed commit returns the running count
SlackFinishKeepsCount(run, fault, t) ==
    IF fault = "commit"
    THEN Outcome([Return(run, run.documents_indexed, "Database error")
                    EXCEPT !.pending = <<>>], TRUE)
    ELSE Outcome([Return(run, run.documents_indexed,
                         IF run.skipped # <<>> THEN "Indexed. Skipped channels"
                                               ELSE NoMessage)
                    EXCEPT !.pending = <<>>,
                           !.wrote = IF run.update_last_indexed
                                        /\ run.documents_indexed > 0
                                     THEN Some(t) ELSE @], FALSE)

\* From "Update the last_indexed_at timestamp" to the return, and the two
\* except clauses around the whole function: the connector's new timestamp
\* and the staged documents go out in one commit, or not at all
SlackFinish(run, fault, t) ==
    IF fault = "commit"
    THEN Outcome([Return(run, 0, "Database error") EXCEPT !.pending = <<>>], TRUE)
    ELSE Outcome([Return(run, run.documents_indexed,
                         IF run.skipped # <<>> THEN "Indexed. Skipped channels"
                                               ELSE NoMessage)
                    EXCEPT !.pending = <<>>,
                           !.wrote = IF run.update_last_indexed
                                        /\ run.documents_indexed > 0
                                     THEN Some(t) ELSE @], FALSE)

\* --------------------------------------------------- index_notion_pages
NotionBegin(run, r, fault, t) ==
    LET c == run.connector_id IN
    IF c \notin DOMAIN connectors \/ connectors[c].connector_type # NOTION
    THEN Outcome(Return(run, 0, "Connector not found or is not a Notion connector"), FALSE)
    ELSE IF "NOTION_INTEGRATION_TOKEN" \notin connectors[c].config
    THEN Outcome(Return(run, 0, "Notion integration token not found in connector config"), FALSE)
    ELSE LET range == NotionDateRange(connectors[c].last_indexed_at, t)
             planned == [run EXCEPT
                           !.started_at = Some(t),
                           !.watermark_at_start = connectors[c].last_indexed_at,
                           !.start_date = range.start_date,
                           !.end_date = range.end_date,
                           !.start_date_str = NotionFormatDate(range.start_date),
                           !.end_date_str = NotionFormatDate(range.end_date)]
             pages == get_all_pages(planned.start_date_str,
                                    planned.end_date_str, t)
         IN  IF fault = "get_all_pages"
             THEN Outcome(Return(planned, 0, "Failed to get Notion pages"), TRUE)
             ELSE IF pages = <<>>
             THEN Outcome(Return(planned, 0, "No Notion pages found"), FALSE)
             ELSE Outcome([planned EXCEPT !.pc = "containers",
                                          !.channels = pages], FALSE)

\* (mutant) a block is written without the indentation of its level
LineFlat(level, before, block_content, after) ==
    [indent |-> <<>>,
     text |-> <<before, block_content, after>>]

\* One block of the markdown: the indentation of its level, then what its
\* type puts before and after its content
Line(level, before, block_content, after) ==
    [indent |-> [k \in 1..level |-> "  "],
     text |-> <<before, block_content, after>>]

\* process_blocks(blocks, level=0), nested in index_notion_pages: the loop
\* over the blocks is the recursion over the tail, the text each block adds
\* comes before the text of its children; <fence> is the line of three
\* backquotes around a code block
RECURSIVE process_blocks(_, _)
process_blocks(blocks, level) ==
    IF blocks = <<>> THEN <<>>
    ELSE LET block == Head(blocks)
             block_type == block.type
             block_content == block.content
             children == block.children
             own ==
               CASE block_type \in {"paragraph", "text"} ->
                      <<Line(level, "", block_content, "\n\n")>>
                 [] block_type \in {"heading_1", "header"} ->
                      <<Line(level, "# ", block_content, "\n\n")>>
                 [] block_type = "heading_2" ->
                      <<Line(level, "## ", block_content, "\n\n")>>
                 [] block_type = "heading_3" ->
                      <<Line(level, "### ", block_content, "\n\n")>>
                 [] block_type = "bulleted_list_item" ->
                      <<Line(level, "* ", block_content, "\n")>>
                 [] block_type = "numbered_list_item" ->
                      <<Line(level, "1. ", block_content, "\n")>>
                 [] block_type = "to_do" ->
                      <<Line(level, "- [ ] ", block_content, "\n")>>
                 [] block_type = "toggle" ->
                      <<Line(level, "> ", block_content, "\n")>>
                 [] block_type = "code" ->
                      <<Line(level, "<fence>\n", block_content, "\n<fence>\n\n")>>
                 [] block_type = "quote" ->
                      <<Line(level, "> ", block_content, "\n\n")>>
                 [] block_type = "callout" ->
                      <<Line(level, "> **Note:** ", block_content, "\n\n")>>
                 [] block_type = "image" ->
                      <<Line(level, "![Image](", block_content, ")\n\n")>>
                 [] OTHER ->
                      IF block_content # <<>>
                      THEN <<Line(level, "", block_content, "\n\n")>>
                      ELSE <<>>
         IN  own
             \o (IF children # <<>>
                 THEN process_blocks(children, level + 1) ELSE <<>>)
             \o process_blocks(Tail(blocks), level)

\* page.get("content", []) of a page of the provider: an item of the page is
\* a block without children, a paragraph when it is a plain item and of a
\* type process_blocks has no branch for otherwise
page_blocks(page_content) ==
    [k \in DOMAIN page_content |->
        [type |-> IF page_content[k].subtype = "message"
                  THEN "paragraph" ELSE "unsupported",
         content |-> <<page_content[k].ts>>,
         children |-> <<>>]]

\* "Convert page content to markdown format": the heading of the page, then
\* the blocks
markdown_content(c, page_content) ==
    <<<<"# Notion Page: ", ChannelName(c)>>>> \o
    process_blocks(page_blocks(page_content), 0)

\* "Build the document string" of a page
Notion_combined_document_string(c, page_content) ==
    [METADATA |->
        [PAGE_TITLE |-> ChannelName(c),
         PAGE_ID |-> c],
     CONTENT |-> markdown_content(c, page_content)]

\* (mutant) the embedding is made of the markdown, not of the summary
NotionDocumentEmbedsMarkdown(run, r, c, page_content, chunks) ==
    LET summary_content ==
            summarize(Notion_combined_document_string(c, page_content))
        summary_embedding == embed(markdown_content(c, page_content))
    IN  [run |-> r,
         search_space_id |-> run.search_space_id,
         title |-> <<"Notion - ", ChannelName(c)>>,
         document_type |-> NOTION,
         document_metadata |->
            [page_title |-> ChannelName(c),
             page_id |-> c],
         content |-> summary_content,
         embedding |-> summary_embedding,
         chunks |-> chunks]

NotionDocument(run, r, c, page_content, chunks) ==
    LET summary_content ==
            summarize(Notion_combined_document_string(c, page_content))
        summary_embedding == embed(summary_content)
    IN  [run |-> r,
         search_space_id |-> run.search_space_id,
         title |-> <<"Notion - ", ChannelName(c)>>,
         document_type |-> NOTION,
         document_metadata |->
            [page_title |-> ChannelName(c),
             page_id |-> c],
         content |-> summary_content,
         embedding |-> summary_embedding,
         chunks |-> chunks]

\* From process_blocks to session.add(document)
NotionAssemble(run, r, c, page_content, fault) ==
    IF fault \in {"process_blocks", "summarize", "embed", "chunk"}
    THEN Outcome(Skip(run, c, "processing error"), TRUE)
    ELSE Outcome(Stage(run,
                       NotionDocument(run, r, c, page_content,
                           Chunks(chunk(markdown_content(c, page_content))))),
                 FALSE)

NotionFaults == {"process_blocks", "summarize", "embed", "chunk"}

\* (mutant) a page without content is assembled like any other
NotionPageKeepsEmpty(run, r, fault) ==
    LET c == run.channels[run.i]
        page_content == PageContent(c, run.started_at[1])
    IN  NotionAssemble(run, r, c, page_content, fault)

\* One pass of "for page in pages"; the page's content is the one
\* get_all_pages returned
NotionPage(run, r, fault) ==
    LET c == run.channels[run.i]
        page_content == PageContent(c, run.started_at[1])
    IN  IF page_content = <<>> THEN Outcome(Skip(run, c, "no content"), FALSE)
        ELSE NotionAssemble(run, r, c, page_content, fault)

\* (mutant) the handler of a failed commit returns the running count
NotionFinishKeepsCount(run, fault, t) ==
    IF fault = "commit"
    THEN Outcome([Return(run, run.documents_indexed, "Database error")
                    EXCEPT !.pending = <<>>], TRUE)
    ELSE Outcome([Return(run, run.documents_indexed,
                         IF run.skipped # <<>> THEN "Indexed. Skipped pages"
                                               ELSE NoMessage)
                    EXCEPT !.pending = <<>>,
                           !.wrote = IF run.update_last_indexed
                                        /\ run.documents_indexed > 0
                                     THEN Some(t) ELSE @], FALSE)

NotionFinish(run, fault, t) ==
    IF fault = "commit"
    THEN Outcome([Return(run, 0, "Database error") EXCEPT !.pending = <<>>], TRUE)
    ELSE Outcome([Return(run, run.documents_indexed,
                         IF run.skipped # <<>> THEN "Indexed. Skipped pages"
                                               ELSE NoMessage)
                    EXCEPT !.pending = <<>>,
                           !.wrote = IF run.update_last_indexed
                                        /\ run.documents_indexed > 0
                                     THEN Some(t) ELSE @], FALSE)

\* ------------------------------------------------- the steps of a run
\* (mutant) the handler awaits the run: a failure in it becomes the answer
Foreground(resp, out) ==
    IF out.fired THEN [resp EXCEPT !.status = 500] ELSE resp

\* The run is a background task: the answer was sent before it started, what
\* happens in it is logged and is no part of any answer
Background(resp, out) == resp

\* The sessions that are open: the request's and those of the running tasks
OpenSessions ==
    {RequestSession} \cup
    {runs[q].session[1] : q \in {x \in RunIds : runs[x].session # None}}

\* async_session_maker(): a session that is none of the open ones
async_session_maker ==
    CHOOSE n \in 1 .. MaxRuns :
        /\ n \notin OpenSessions
        /\ \A m \in 1 .. MaxRuns : m \notin OpenSessions => n <= m

\* (mutant) the task is handed the session of the request
WithRequestSession(run) == [run EXCEPT !.session = Some(RequestSession)]

\* "async with async_session_maker() as session": entry
WithNewSession(run) == [run EXCEPT !.session = Some(async_session_maker)]

\* "async with async_session_maker() as session": exit
Closed(run) == [run EXCEPT !.session = None]

\* A step takes the outcome an operator computes for one choice of fault; a
\* fault that fires uses up one of the MaxFaults faults of a behaviour.
Take(r, out, fault) ==
    /\ (fault # "none") = out.fired
    /\ out.fired => faults < MaxFaults
    /\ runs' = [runs EXCEPT ![r] = out.run]
    /\ faults' = IF out.fired THEN faults + 1 ELSE faults
    /\ response' = Background(response, out)

\* What a commit of run's session makes durable
Committed(run, out) ==
    IF out.fired THEN documents ELSE documents \cup Range(run.pending)

\* The connector row after the commit of a finished index_* call
Stamped(run, out) ==
    IF out.run.wrote # run.wrote /\ run.connector_id \in DOMAIN connectors
    THEN [connectors EXCEPT ![run.connector_id].last_indexed_at = out.run.wrote]
    ELSE connectors

index_slack_messages_begin(r) ==
    /\ runs[r].pc = "queued" /\ runs[r].kind = SLACK
    /\ \E fault \in {"none", "get_all_channels"} :
          Take(r, SlackBegin(WithNewSession(runs[r]), r, fault, now), fault)
    /\ UNCHANGED <<now, connectors, source, documents, requests, next_id,
                   tree, rendered>>

index_slack_messages_channel(r) ==
    /\ runs[r].pc = "containers" /\ runs[r].kind = SLACK
    /\ runs[r].i <= Len(runs[r].channels)
    /\ \E fault \in {"none"} \cup SlackFaults :
          Take(r, SlackChannel(runs[r], r, fault, now), fault)
    /\ UNCHANGED <<now, connectors, source, documents, requests, next_id,
                   tree, rendered>>

index_slack_messages_commit(r) ==
    /\ runs[r].pc = "containers" /\ runs[r].kind = SLACK
    /\ runs[r].i > Len(runs[r].channels)
    /\ \E fault \in {"none", "commit"} :
          LET out == SlackFinish(runs[r], fault, now) IN
          /\ Take(r, out, fault)
          /\ documents' = Committed(runs[r], out)
          /\ connectors' = Stamped(runs[r], out)
    /\ UNCHANGED <<now, source, requests, next_id,
                   tree, rendered>>

index_notion_pages_begin(r) ==
    /\ runs[r].pc = "queued" /\ runs[r].kind = NOTION
    /\ \E fault \in {"none", "get_all_pages"} :
          Take(r, NotionBegin(WithNewSession(runs[r]), r, fault, now), fault)
    /\ UNCHANGED <<now, connectors, source, documents, requests, next_id,
                   tree, rendered>>

index_notion_pages_page(r) ==
    /\ runs[r].pc = "containers" /\ runs[r].kind = NOTION
    /\ runs[r].i <= Len(runs[r].channels)
    /\ \E fault \in {"none"} \cup NotionFaults :
          Take(r, NotionPage(runs[r], r, fault), fault)
    /\ UNCHANGED <<now, connectors, source, documents, requests, next_id,
                   tree, rendered>>

index_notion_pages_commit(r) ==
    /\ runs[r].pc = "containers" /\ runs[r].kind = NOTION
    /\ runs[r].i > Len(runs[r].channels)
    /\ \E fault \in {"none", "commit"} :
          LET out == NotionFinish(runs[r], fault, now) IN
          /\ Take(r, out, fault)
          /\ documents' = Committed(runs[r], out)
          /\ connectors' = Stamped(runs[r], out)
    /\ UNCHANGED <<now, source, requests, next_id,
                   tree, rendered>>

\* ------------------------------------------- update_connector_last_indexed
\* The connector row is stamped with the time of the call when the row still
\* exists and the commit goes through; an exception is logged and rolled back
update_connector_last_indexed(c, fault, t) ==
    IF c \in DOMAIN connectors /\ fault # "commit"
    THEN [connectors EXCEPT ![c].last_indexed_at = Some(t)]
    ELSE connectors

\* The run's own record of the stamp it made durable
Stamp(run, fault, t) ==
    IF run.connector_id \in DOMAIN connectors /\ fault # "commit"
    THEN [run EXCEPT !.pc = "done", !.wrote = Some(t)]
    ELSE [run EXCEPT !.pc = "done"]

\* A commit fails only where there is a row to write
StampFired(run, fault) ==
    fault = "commit" /\ run.connector_id \in DOMAIN connectors

\* (mutant) the wrapper stamps the connector whatever index_* returned
SlackStampsAlways(run) == TRUE

\* (mutant) the wrapper looks at the documents the loop staged, not at the
\* count index_* returned
SlackStampsOnStaged(run) == run.documents_indexed > 0

\* run_slack_indexing, after index_slack_messages has returned
SlackShouldStamp(run) == run.count > 0

\* (mutant) the connector is stamped with the time at which the run began
run_slack_indexing_stamps_start(r) ==
    /\ runs[r].pc = "returned" /\ runs[r].kind = SLACK
    /\ IF SlackShouldStamp(runs[r])
       THEN \E fault \in {"none", "commit"} :
               /\ Take(r, Outcome(Closed(Stamp(runs[r], fault,
                                               runs[r].started_at[1])),
                                  StampFired(runs[r], fault)), fault)
               /\ connectors' = update_connector_last_indexed(
                                    runs[r].connector_id, fault,
                                    runs[r].started_at[1])
       ELSE /\ runs' = [runs EXCEPT ![r] = Closed([runs[r] EXCEPT !.pc = "done"])]
            /\ UNCHANGED <<connectors, faults, response>>
    /\ UNCHANGED <<now, source, documents, requests, next_id,
                   tree, rendered>>

run_slack_indexing(r) ==
    /\ runs[r].pc = "returned" /\ runs[r].kind = SLACK
    /\ IF SlackShouldStamp(runs[r])
       THEN \E fault \in {"none", "commit"} :
               /\ Take(r, Outcome(Closed(Stamp(runs[r], fault, now)),
                                  StampFired(runs[r], fault)), fault)
               /\ connectors' = update_connector_last_indexed(
                                    runs[r].connector_id, fault, now)
       ELSE /\ runs' = [runs EXCEPT ![r] = Closed([runs[r] EXCEPT !.pc = "done"])]
            /\ UNCHANGED <<connectors, faults, response>>
    /\ UNCHANGED <<now, source, documents, requests, next_id,
                   tree, rendered>>

\* run_notion_indexing, after index_notion_pages has returned
NotionShouldStamp(run) == run.count > 0

run_notion_indexing(r) ==
    /\ runs[r].pc = "returned" /\ runs[r].kind = NOTION
    /\ IF NotionShouldStamp(runs[r])
       THEN \E fault \in {"none", "commit"} :
               /\ Take(r, Outcome(Closed(Stamp(runs[r], fault, now)),
                                  StampFired(runs[r], fault)), fault)
               /\ connectors' = update_connector_last_indexed(
                                    runs[r].connector_id, fault, now)
       ELSE /\ runs' = [runs EXCEPT ![r] = Closed([runs[r] EXCEPT !.pc = "done"])]
            /\ UNCHANGED <<connectors, faults, response>>
    /\ UNCHANGED <<now, source, documents, requests, next_id,
                   tree, rendered>>

\* ----------------------------- index_github_repos / index_linear_issues
\* The two functions are imported by the routes and called with
\* update_last_indexed=False; they are the runner of the specification: a
\* missing connector or credential, a failed enumeration or a failed commit
\* ends the call with (0, error); otherwise n containers yield a document
\* and the message is None unless a container was skipped.
OpaqueDocument(run, r, c) ==
    [run |-> r,
     search_space_id |-> run.search_space_id,
     title |-> <<run.kind, ChannelName(c)>>,
     document_type |-> run.kind,
     document_metadata |-> [container_name |-> ChannelName(c),
                            container_id |-> c],
     chunks |-> <<>>]

OpaqueIndex(run, r, fault, n, t) ==
    LET c == run.connector_id IN
    IF c \notin DOMAIN connectors \/ connectors[c].connector_type # run.kind
    THEN Outcome(Return(run, 0, "Connector not found"), FALSE)
    ELSE IF RequiredKey(run.kind) \notin connectors[c].config
    THEN Outcome(Return(run, 0, "Token not found in connector config"), FALSE)
    ELSE LET planned == [run EXCEPT
                           !.started_at = Some(t),
                           !.watermark_at_start = connectors[c].last_indexed_at,
                           !.end_date = t,
                           !.pending = [k \in 1 .. n |-> OpaqueDocument(run, r, k)],
                           !.documents_indexed = n]
         IN  CASE fault \in {"enumerate", "commit"} ->
                    Outcome([Return(planned, 0, "Failed")
                               EXCEPT !.pending = <<>>], TRUE)
               [] fault = "skip" ->
                    Outcome(Return([planned EXCEPT
                                      !.skipped = <<<<n + 1, "error">>>>],
                                   n, "Skipped"), TRUE)
               [] OTHER ->
                    Outcome(Return(planned, n, NoMessage), FALSE)

index_opaque(r) ==
    /\ runs[r].pc = "queued" /\ runs[r].kind \in {GITHUB, LINEAR}
    /\ \E fault \in {"none", "enumerate", "skip", "commit"},
          n \in 0 .. MaxContainers :
          LET out == OpaqueIndex(WithNewSession(runs[r]), r, fault, n, now) IN
          /\ fault = "skip" => n < MaxContainers
          /\ Take(r, out, fault)
          /\ documents' = IF out.run.count > 0
                          THEN documents \cup Range(out.run.pending)
                          ELSE documents
    /\ UNCHANGED <<now, connectors, source, requests, next_id,
                   tree, rendered>>

\* run_github_indexing, after index_github_repos has returned
GithubShouldStamp(run) == run.message = NoMessage

run_github_indexing(r) ==
    /\ runs[r].pc = "returned" /\ runs[r].kind = GITHUB
    /\ IF GithubShouldStamp(runs[r])
       THEN \E fault \in {"none", "commit"} :
               /\ Take(r, Outcome(Closed(Stamp(runs[r], fault, now)),
                                  StampFired(runs[r], fault)), fault)
               /\ connectors' = update_connector_last_indexed(
                                    runs[r].connector_id, fault, now)
       ELSE /\ runs' = [runs EXCEPT ![r] = Closed([runs[r] EXCEPT !.pc = "done"])]
            /\ UNCHANGED <<connectors, faults, response>>
    /\ UNCHANGED <<now, source, documents, requests, next_id,
                   tree, rendered>>

\* run_linear_indexing, after index_linear_issues has returned
LinearShouldStamp(run) == run.message = NoMessage

run_linear_indexing(r) ==
    /\ runs[r].pc = "returned" /\ runs[r].kind = LINEAR
    /\ IF LinearShouldStamp(runs[r])
       THEN \E fault \in {"none", "commit"} :
               /\ Take(r, Outcome(Closed(Stamp(runs[r], fault, now)),
                                  StampFired(runs[r], fault)), fault)
               /\ connectors' = update_connector_last_indexed(
                                    runs[r].connector_id, fault, now)
       ELSE /\ runs' = [runs EXCEPT ![r] = Closed([runs[r] EXCEPT !.pc = "done"])]
            /\ UNCHANGED <<connectors, faults, response>>
    /\ UNCHANGED <<now, source, documents, requests, next_id,
                   tree, rendered>>

\* The steps of the background tasks
RunSteps ==
    \E r \in RunIds :
          \/ index_slack_messages_begin(r)
          \/ index_slack_messages_channel(r)
          \/ index_slack_messages_commit(r)
          \/ run_slack_indexing(r)
          \/ index_notion_pages_begin(r)
          \/ index_notion_pages_page(r)
          \/ index_notion_pages_commit(r)
          \/ run_notion_indexing(r)
          \/ index_opaque(r)
          \/ run_github_indexing(r)
          \/ run_linear_indexing(r)

\* The requests of the connector's owner, for the owner's search spaces
OwnerRequests ==
    \/ delete_search_source_connector(OwnerId, ConnectorId)
    \/ \E s \in SearchSpaces :
          index_connector_content(OwnerId, ConnectorId, s)

\* The requests of every user, for every search space
AnyRequests ==
    \/ \E u \in Users : delete_search_source_connector(u, ConnectorId)
    \/ \E u \in Users, s \in RequestSpaces :
          index_connector_content(u, ConnectorId, s)

Next == Tick \/ OwnerRequests \/ RunSteps

Spec == Init /\ [][Next]_vars

\* The owner's requests and the runs they dispatch at one instant of the
\* clock, with a task that can take a step eventually taking one: the event
\* loop resumes every task whose awaited call has returned or raised
LiveNext == OwnerRequests \/ RunSteps

LiveSpec == Init /\ [][LiveNext]_vars /\ WF_vars(RunSteps)

\* The pipeline under the requests of every user, over a provider of at most
\* one container
TriggerInit == Init /\ Len(source) <= 1

TriggerNext == Tick \/ AnyRequests \/ RunSteps

TriggerSpec == TriggerInit /\ [][TriggerNext]_vars

\* The connector table under concurrent create, update and delete requests
\* of every user, starting from an empty table
CrudInit ==
    /\ now = 0
    /\ connectors = <<>>
    /\ source = <<>>
    /\ runs = [r \in RunIds |-> IdleRun]
    /\ documents = {}
    /\ faults = 0
    /\ response = NoResponse
    /\ requests = [h \in Handlers |-> NoRequest]
    /\ next_id = 1
    /\ tree = <<>>
    /\ rendered = None

CrudNext ==
    \/ \E h \in Handlers, u \in Users, type \in RequestTypes :
          create_search_source_connector(h, u, type)
    \/ \E h \in Handlers : create_search_source_connector_commit(h)
    \/ \E h \in Handlers, u \in Users, c \in 1 .. MaxConnectors,
          type \in RequestTypes :
          update_search_source_connector(h, u, c, type)
    \/ \E h \in Handlers : update_search_source_connector_commit(h)
    \/ \E u \in Users, c \in 1 .. MaxConnectors :
          delete_search_source_connector(u, c)

CrudSpec == CrudInit /\ [][CrudNext]_vars

\* The pipeline at one instant of the clock, for a connector of either user
\* and the requests of every user for every search space
SpaceInit ==
    /\ now = 0
    /\ \E type \in ConnectorTypes, owner \in Users :
          \E keys \in {{}, {RequiredKey(type)}} :
             connectors = (ConnectorId :>
                 [connector_type |-> type, config |-> keys,
                  user_id |-> owner, last_indexed_at |-> None])
    /\ source \in SourceOptions
    /\ connectors[ConnectorId].connector_type \notin {SLACK, NOTION}
          => source = <<>>
    /\ runs = [r \in RunIds |-> IdleRun]
    /\ documents = {}
    /\ faults = 0
    /\ response = NoResponse
    /\ requests = [h \in Handlers |-> NoRequest]
    /\ next_id = ConnectorId + 1
    /\ tree = <<>>
    /\ rendered = None

SpaceNext == AnyRequests \/ RunSteps

SpaceSpec == SpaceInit /\ [][SpaceNext]_vars

\* ------------------------------------------------------- process_blocks
\* The block types and contents of the trees: a type with a branch of its
\* own and one without, an empty content and one that is not
BlockTypes == {"paragraph", "unsupported"}
BlockContents == {<<>>, <<"x">>}

\* The lists of at most width blocks, each with at most MaxBlocks children,
\* nested at most depth levels deep
RECURSIVE BlockLists(_, _)
BlockLists(depth, width) ==
    IF depth = 0 THEN {<<>>}
    ELSE {<<>>} \cup
         UNION {[1 .. n -> [type : BlockTypes, content : BlockContents,
                            children : BlockLists(depth - 1, MaxBlocks)]]
                  : n \in 1 .. width}

\* A page of the provider with any tree of blocks, not yet rendered
BlocksInit ==
    /\ now = 0
    /\ connectors = <<>>
    /\ source = <<>>
    /\ runs = [r \in RunIds |-> IdleRun]
    /\ documents = {}
    /\ faults = 0
    /\ response = NoResponse
    /\ requests = [h \in Handlers |-> NoRequest]
    /\ next_id = 1
    /\ tree \in BlockLists(MaxDepth, MaxTop)
    /\ rendered = None

\* markdown_content += process_blocks(page_content)
process_page ==
    /\ rendered = None
    /\ rendered' = Some(process_blocks(tree, 0))
    /\ UNCHANGED <<now, connectors, source, runs, documents, faults, response,
                   requests, next_id, tree>>

BlocksNext == process_page

\* The call is made and returns
BlocksSpec == BlocksInit /\ [][BlocksNext]_vars /\ WF_vars(BlocksNext)

\* ============================================================ properties
Finished(r) == runs[r].pc \in {"returned", "done"}
Pipelined(r) == runs[r].kind \in {SLACK, NOTION}
DocsOf(r) == {d \in documents : d.run = r}

DocContainer(d) ==
    CASE d.document_type = SLACK -> d.document_metadata.channel_id
      [] d.document_type = NOTION -> d.document_metadata.page_id
      [] OTHER -> d.document_metadata.container_id

HasDoc(r, c) == \E d \in DocsOf(r) : DocContainer(d) = c
IsSkipped(r, c) == \E k \in DOMAIN runs[r].skipped : runs[r].skipped[k][1] = c

\* The first instant the provider is asked for
WindowFrom(run) ==
    IF run.kind = SLACK THEN Days(run.start_date_str) ELSE run.start_date_str

\* C1: every finished run of an indexable provider has changed the
\* connector's last_indexed_at if and only if the index_* function returned a
\* count above zero.
C1_WatermarkIffDocuments ==
    \A r \in RunIds :
        runs[r].pc = "done" =>
            ((runs[r].wrote # None) <=> (runs[r].count > 0))

\* C2: the last_indexed_at a run writes is the end of that run's window, the
\* time sampled when the run started.
C2_WatermarkIsWindowEnd ==
    \A r \in RunIds :
        (Pipelined(r) /\ runs[r].wrote # None) =>
            runs[r].wrote[1] = runs[r].end_date

\* C3: when a run starts from the watermark the previous advancing run wrote
\* and advances it again, its window starts no later than the previous
\* run's window ended.
C3_NoGapBetweenRuns ==
    \A a, b \in RunIds :
        ( /\ a # b /\ Pipelined(a) /\ Pipelined(b)
          /\ runs[a].connector_id = runs[b].connector_id
          /\ runs[a].wrote # None /\ runs[b].wrote # None
          /\ runs[b].started_at # None
          /\ runs[b].watermark_at_start = runs[a].wrote )
        => WindowFrom(runs[b]) <= runs[a].end_date

\* The messages of the returns that end a run before or instead of its commit
AbortMessages ==
    {"Connector not found or is not a Slack connector",
     "Slack token not found in connector config",
     "Failed to get Slack channels",
     "No Slack channels found",
     "Connector not found or is not a Notion connector",
     "Notion integration token not found in connector config",
     "Failed to get Notion pages",
     "No Notion pages found",
     "Database error",
     "Connector not found",
     "Token not found in connector config",
     "Failed"}

\* The reasons recorded for a container that failed
FailureReasons ==
    {"private, bot not a member", "access error", "error", "Slack API error",
     "processing error"}

\* Container c held, when run r started, an item the run's window covers
ValidAtStart(r, c) ==
    IF runs[r].kind = SLACK
    THEN \E k \in DOMAIN source[c] :
            /\ IsValidMessage(source[c][k])
            /\ InSlackRange(source[c][k], runs[r].start_date_str,
                            runs[r].end_date_str, runs[r].started_at[1])
    ELSE PageContent(c, runs[r].started_at[1]) # <<>>

C4_Persisted ==
    \A r \in RunIds :
        ( /\ Pipelined(r) /\ Finished(r)
          /\ runs[r].channels # <<>>
          /\ runs[r].message \notin AbortMessages )
        => \A k \in DOMAIN runs[r].channels :
              ValidAtStart(r, runs[r].channels[k])
              => \/ HasDoc(r, runs[r].channels[k])
                 \/ IsSkipped(r, runs[r].channels[k])

C4_Step ==
    \A r \in RunIds :
        ( /\ Pipelined(r)
          /\ runs[r].pc = "containers"
          /\ runs[r].i <= Len(runs[r].channels)
          /\ runs'[r] # runs[r] )
        => LET old == runs[r]
               new == runs'[r]
           IN  /\ new.pc = "containers"
               /\ new.i = old.i + 1
               /\ new.channels = old.channels
               /\ Len(new.pending) >= Len(old.pending)
               /\ SubSeq(new.pending, 1, Len(old.pending)) = old.pending
               /\ Len(new.skipped) >= Len(old.skipped)
               /\ SubSeq(new.skipped, 1, Len(old.skipped)) = old.skipped
               /\ (faults' > faults /\ new.pending = old.pending)
                  => /\ Len(new.skipped) = Len(old.skipped) + 1
                     /\ new.skipped[Len(new.skipped)][1] = old.channels[old.i]
                     /\ new.skipped[Len(new.skipped)][2] \in FailureReasons

\* C4: in a run whose commit went through, every enumerated container that
\* held a valid item when the run started is persisted or is itself in the
\* skipped list, whatever happened to the other containers; and each pass of
\* the loop moves on to the next container, keeps what earlier passes staged
\* and skipped, and records the container it failed on with a reason.
C4_Isolation == [] C4_Persisted /\ [][C4_Step]_vars

\* A finished run in which one container failed and another was persisted
C4_Witness ==
    \E r \in RunIds :
        /\ Pipelined(r) /\ runs[r].pc = "done"
        /\ \E k \in DOMAIN runs[r].skipped :
              runs[r].skipped[k][2] \in FailureReasons
        /\ \E c \in DOMAIN source : HasDoc(r, c) /\ ~ IsSkipped(r, c)

\* C5: the documents staged before the container whose persistence failed
\* stay persisted: a finished run has lost at most its last document.
C5_EarlierContainersStayPersisted ==
    \A r \in RunIds :
        (Pipelined(r) /\ Finished(r)) =>
            Cardinality(DocsOf(r)) >= runs[r].documents_indexed - 1

\* Every item of the source existed before time t
AllItemsBefore(t) ==
    \A c \in DOMAIN source : \A k \in DOMAIN source[c] : source[c][k].ts < t

\* C6: a run that starts from the watermark of a finished advancing run, over
\* source data that all existed before that run started, persists no
\* document and does not write the watermark.
C6_SecondRunIsNoOp ==
    \A a, b \in RunIds :
        ( /\ a # b /\ Pipelined(a) /\ Pipelined(b)
          /\ runs[a].connector_id = runs[b].connector_id
          /\ runs[a].pc = "done" /\ runs[a].wrote # None
          /\ runs[b].pc = "done"
          /\ runs[b].watermark_at_start = runs[a].wrote
          /\ AllItemsBefore(runs[a].started_at[1]) )
        => /\ runs[b].count = 0
           /\ DocsOf(b) = {}
           /\ runs[b].wrote = None

\* C7: no two runs of one connector that both started from the never-synced
\* watermark (so each started before the other had finished) compute the
\* same window, both persist a document for one container and both write
\* last_indexed_at.
C7_NoOverlappingAdvancers ==
    ~ \E a, b \in RunIds :
        /\ a < b /\ Pipelined(a) /\ Pipelined(b)
        /\ runs[a].connector_id = runs[b].connector_id
        /\ runs[a].started_at # None /\ runs[b].started_at # None
        /\ runs[a].watermark_at_start = None
        /\ runs[b].watermark_at_start = None
        /\ runs[a].start_date_str = runs[b].start_date_str
        /\ runs[a].end_date_str = runs[b].end_date_str
        /\ runs[a].wrote # None /\ runs[b].wrote # None
        /\ \E c \in DOMAIN source : HasDoc(a, c) /\ HasDoc(b, c)

\* The documents of run r, staged in its session or persisted
Mine(r) == Range(runs[r].pending) \cup DocsOf(r)

\* C8: a run's documents, staged or persisted, belong to containers the loop
\* has already passed and that are not in its skipped list, each document
\* carries its chunks, and with every skipped container recorded the run
\* has moved on: a container whose assembly raised leaves no Document and no
\* Chunk behind.
C8_NoPartialDocument ==
    \A r \in RunIds :
        Pipelined(r) =>
            /\ \A d \in Mine(r) :
                  /\ ~ IsSkipped(r, DocContainer(d))
                  /\ \E k \in 1 .. (runs[r].i - 1) :
                        runs[r].channels[k] = DocContainer(d)
                  /\ Len(d.chunks) \in Nat
            /\ Len(runs[r].pending) <= runs[r].documents_indexed
            /\ runs[r].documents_indexed + Len(runs[r].skipped) <= runs[r].i - 1

\* A finished run that skipped a container on a processing error and still
\* persisted another one
C8_Witness ==
    \E r \in RunIds :
        /\ Pipelined(r) /\ runs[r].pc = "done"
        /\ \E k \in DOMAIN runs[r].skipped :
              /\ runs[r].skipped[k][2] = "processing error"
              /\ ~ HasDoc(r, runs[r].skipped[k][1])
        /\ DocsOf(r) # {}

\* C9: a run that never reached its container loop returned an abort
\* message, and a run that returned an abort message returned the count 0,
\* persisted none of its documents, holds none staged and did not write
\* last_indexed_at.
C9_AbortLeavesNothing ==
    \A r \in RunIds :
        Finished(r) =>
            /\ runs[r].channels = <<>> /\ Pipelined(r)
                  => runs[r].message \in AbortMessages
            /\ runs[r].message \in AbortMessages
                  => /\ runs[r].message # NoMessage
                     /\ runs[r].count = 0
                     /\ DocsOf(r) = {}
                     /\ runs[r].pending = <<>>
                     /\ runs[r].wrote = None

\* A finished run whose commit failed after it had staged a document
C9_Witness ==
    \E r \in RunIds :
        /\ runs[r].pc = "done"
        /\ runs[r].message = "Database error"
        /\ runs[r].documents_indexed > 0

\* C10: a run that planned its window for a connector never synced before
\* fetches from exactly 365 days before the time it started up to that time;
\* Slack is asked for the calendar days of the two bounds.
C10_NeverSyncedWindow ==
    \A r \in RunIds :
        ( /\ Pipelined(r)
          /\ runs[r].started_at # None
          /\ runs[r].watermark_at_start = None )
        => /\ runs[r].end_date = runs[r].started_at[1]
           /\ runs[r].start_date = runs[r].started_at[1] - Days(NeverSyncedDays)
           /\ runs[r].kind = SLACK
                 => /\ runs[r].start_date_str
                          = Date(runs[r].started_at[1]) - NeverSyncedDays
                    /\ runs[r].end_date_str = Date(runs[r].started_at[1])
           /\ runs[r].kind = NOTION
                 => /\ runs[r].start_date_str = runs[r].start_date
                    /\ runs[r].end_date_str = runs[r].end_date

\* A Slack run and a Notion run of a never-synced connector, each started
\* after the clock had moved
C10_Witness ==
    \E r \in RunIds :
        /\ Pipelined(r)
        /\ runs[r].started_at # None
        /\ runs[r].started_at[1] > 0
        /\ runs[r].watermark_at_start = None
        /\ runs[r].pc = "done"

\* The lookback of a provider
Lookback(kind) ==
    IF kind = SLACK THEN SlackLookbackDays ELSE NotionLookbackDays

\* Run r planned its window from a watermark of the day it started on
SyncedToday(r) ==
    /\ Pipelined(r)
    /\ runs[r].started_at # None
    /\ runs[r].watermark_at_start # None
    /\ Date(runs[r].watermark_at_start[1]) = Date(runs[r].started_at[1])

\* Run r planned its window from a watermark of an earlier day
SyncedEarlier(r) ==
    /\ Pipelined(r)
    /\ runs[r].started_at # None
    /\ runs[r].watermark_at_start # None
    /\ Date(runs[r].watermark_at_start[1]) < Date(runs[r].started_at[1])

C12_WindowFromWatermark ==
    \A r \in RunIds :
        SyncedEarlier(r) =>
            /\ runs[r].start_date = runs[r].watermark_at_start[1]
            /\ runs[r].end_date = runs[r].started_at[1]
            /\ runs[r].start_date <= runs[r].end_date
            /\ runs[r].kind = SLACK
                  => /\ runs[r].start_date_str
                           = Date(runs[r].watermark_at_start[1])
                     /\ runs[r].end_date_str = Date(runs[r].started_at[1])
            /\ runs[r].kind = NOTION
                  => /\ runs[r].start_date_str = runs[r].watermark_at_start[1]
                     /\ runs[r].end_date_str = runs[r].started_at[1]

\* A run that planned its window from a watermark of an earlier day
C12_Witness ==
    \E r \in RunIds : SyncedEarlier(r) /\ runs[r].pc # "queued"

\* The calendar day an announced date stands for at time t
PreviewDay(p, t) ==
    IF p.kind = "days ago" THEN Date(t - Days(p.value)) ELSE p.value

\* C13: when the run an acknowledgment announced has planned its window
\* from the last_indexed_at the request read, the announced indexing_from is
\* the calendar day of the start of that window.
C13_PreviewMatchesWindow ==
    \A r \in RunIds :
        ( /\ response.status = 200 /\ response.run = r
          /\ Pipelined(r)
          /\ runs[r].started_at # None
          /\ runs[r].watermark_at_start = response.watermark )
        => /\ response.indexing_from.kind # "none"
           /\ PreviewDay(response.indexing_from, runs[r].started_at[1])
                 = Date(runs[r].start_date)

\* The reasons recorded for a channel the bot cannot read
AccessReasons == {"access error", "private, bot not a member"}

\* The channels of run r that held a valid message of its window
ValidChannels(r) ==
    {c \in Range(runs[r].channels) : ValidAtStart(r, c)}

\* A finished Slack run of a never-synced connector in which nothing failed
\* but the access to some channels
OnlyAccessErrors(r) ==
    /\ runs[r].kind = SLACK /\ runs[r].pc = "done"
    /\ runs[r].watermark_at_start = None
    /\ runs[r].channels # <<>>
    /\ faults = Len(runs[r].skipped)
    /\ \A k \in DOMAIN runs[r].skipped :
          runs[r].skipped[k][2] \in AccessReasons

\* The report of such a run: one document per readable channel with a valid
\* message, no history fetch and no document for a skipped channel, and the
\* watermark written when a document was persisted
C14_Report ==
    \A r \in RunIds :
        OnlyAccessErrors(r) =>
            /\ runs[r].message \notin AbortMessages
            /\ runs[r].count
                  = Cardinality({c \in ValidChannels(r) : ~ IsSkipped(r, c)})
            /\ runs[r].count = Cardinality(DocsOf(r))
            /\ \A c \in ValidChannels(r) : IsSkipped(r, c) \/ HasDoc(r, c)
            /\ \A k \in DOMAIN runs[r].skipped :
                  /\ runs[r].skipped[k][1] \notin runs[r].fetched
                  /\ ~ HasDoc(r, runs[r].skipped[k][1])
            /\ runs[r].count >= 1
                  => /\ runs[r].wrote # None
                     /\ connectors[runs[r].connector_id].last_indexed_at
                           # None

\* A pass of the Slack loop that fails before the history is asked for
\* records the channel and goes on to the next one
C14_Step ==
    \A r \in RunIds :
        ( /\ runs[r].kind = SLACK
          /\ runs[r].pc = "containers"
          /\ runs[r].i <= Len(runs[r].channels)
          /\ runs'[r] # runs[r]
          /\ faults' > faults
          /\ runs'[r].fetched = runs[r].fetched )
        => /\ runs'[r].pc = "containers"
           /\ runs'[r].i = runs[r].i + 1
           /\ runs'[r].pending = runs[r].pending
           /\ runs'[r].skipped
                 = Append(runs[r].skipped,
                          runs'[r].skipped[Len(runs'[r].skipped)])
           /\ runs'[r].skipped[Len(runs'[r].skipped)][1]
                 = runs[r].channels[runs[r].i]
           /\ runs'[r].skipped[Len(runs'[r].skipped)][2]
                 \in AccessReasons \cup {"Slack API error"}

\* C14: a Slack channel the bot cannot read is recorded as skipped, with the
\* reason "access error" or "private, bot not a member", before its history
\* is asked for, and the loop goes on; a run of a never-synced connector in
\* which nothing else failed reports one document per readable channel with
\* a valid message and writes last_indexed_at when that count is at least 1.
C14_AccessErrorIsSkip == [] C14_Report /\ [][C14_Step]_vars

\* A finished run that skipped a channel on an access error, persisted a
\* document for another one and wrote the watermark
C14_Witness ==
    \E r \in RunIds :
        /\ OnlyAccessErrors(r)
        /\ \E k \in DOMAIN runs[r].skipped :
              runs[r].skipped[k][2] = "access error"
        /\ runs[r].count >= 1
        /\ runs[r].wrote # None
\* Run x is a Notion run past get_all_pages, and every page it was given
\* holds no content block
AllPagesEmpty(x) ==
    /\ x.kind = NOTION
    /\ x.pc \in {"containers", "returned", "done"}
    /\ x.channels # <<>>
    /\ \A c \in Range(x.channels) : PageContent(c, x.started_at[1]) = <<>>

\* What such a run has done once index_notion_pages returned
C15_Report ==
    \A r \in RunIds :
        (AllPagesEmpty(runs[r]) /\ runs[r].pc \in {"returned", "done"})
        => /\ runs[r].count = 0
           /\ DocsOf(r) = {}
           /\ runs[r].pending = <<>>
           /\ runs[r].wrote = None
           /\ runs[r].message \in {"Indexed. Skipped pages", "Database error"}
           /\ Len(runs[r].skipped) = Len(runs[r].channels)
           /\ \A k \in DOMAIN runs[r].skipped :
                 runs[r].skipped[k] = <<runs[r].channels[k], "no content">>

\* No step of such a run writes a connector or a document
C15_Step ==
    \A r \in RunIds :
        (AllPagesEmpty(runs'[r]) /\ runs'[r] # runs[r])
        => /\ connectors' = connectors
           /\ documents' = documents
           /\ runs'[r].pending = <<>>

\* C15: a Notion run all of whose pages hold no content block skips every
\* page with the reason "no content", persists no document, returns a count
\* of zero with a message (no exception), and neither it nor its wrapper
\* writes last_indexed_at.
C15_EmptyPagesIndexNothing == [] C15_Report /\ [][C15_Step]_vars

\* A finished run over two pages without content
C15_Witness ==
    \E r \in RunIds :
        /\ AllPagesEmpty(runs[r]) /\ runs[r].pc = "done"
        /\ Len(runs[r].channels) = 2
        /\ Len(runs[r].skipped) = 2
        /\ runs[r].message = "Indexed. Skipped pages"
\* What the loop of run x hands to the chunker for container c at time t
Content(x, c, t) ==
    IF x.kind = SLACK
    THEN SelectSeq(get_history_by_date_range(c, x.start_date_str,
                                             x.end_date_str, t),
                   IsValidMessage)
    ELSE PageContent(c, x.started_at[1])

\* The markdown the loop of run x renders for container c at time t
Body(x, c, t) ==
    IF x.kind = SLACK
    THEN channel_content(c, [k \in DOMAIN Content(x, c, t) |->
                                format_message(Content(x, c, t)[k])])
    ELSE markdown_content(c, Content(x, c, t))

\* A pass of the loop in which nothing raised, over a container whose
\* content the chunker returns no chunk for, stages the document with no
\* chunk, counts it and does not record the container as skipped
C16_Step ==
    \A r \in RunIds :
        ( /\ Pipelined(r)
          /\ runs[r].pc = "containers"
          /\ runs[r].i <= Len(runs[r].channels)
          /\ runs'[r] # runs[r]
          /\ faults' = faults
          /\ Content(runs[r], runs[r].channels[runs[r].i], now) # <<>>
          /\ chunk(Body(runs[r], runs[r].channels[runs[r].i], now)) = <<>> )
        => LET old == runs[r]
               new == runs'[r]
           IN  /\ Len(new.pending) = Len(old.pending) + 1
               /\ SubSeq(new.pending, 1, Len(old.pending)) = old.pending
               /\ DocContainer(new.pending[Len(new.pending)])
                     = old.channels[old.i]
               /\ new.pending[Len(new.pending)].chunks = <<>>
               /\ new.documents_indexed = old.documents_indexed + 1
               /\ new.skipped = old.skipped

\* The count a run returns after its commit covers every document it
\* persisted, those without chunks included
C16_Counted ==
    \A r \in RunIds :
        ( /\ Pipelined(r) /\ Finished(r)
          /\ runs[r].channels # <<>>
          /\ runs[r].message \notin AbortMessages )
        => /\ runs[r].count = Cardinality(DocsOf(r))
           /\ \A d \in DocsOf(r) : ~ IsSkipped(r, DocContainer(d))

\* C16: when the chunker returns no chunk for a container's content, the
\* container's document is still staged and persisted, with an empty chunk
\* list, it is counted among the documents indexed, and the container is
\* not skipped.
C16_EmptyChunksStillPersisted == [] C16_Counted /\ [][C16_Step]_vars

\* A finished run that persisted and counted a document without chunks
C16_Witness ==
    \E r \in RunIds :
        /\ Pipelined(r) /\ runs[r].pc = "done"
        /\ runs[r].count >= 1
        /\ \E d \in DocsOf(r) :
              /\ d.chunks = <<>>
              /\ ~ IsSkipped(r, DocContainer(d))
\* Run r is inside the "async with" of its task: index_* has been entered and
\* the wrapper has not finished
InTask(r) == runs[r].pc \in {"containers", "returned"}

\* A run inside its task holds a session that is neither the request's nor
\* another run's; outside of it a run holds none
C18_Sessions ==
    \A r \in RunIds :
        /\ InTask(r)
             => /\ runs[r].session # None
                /\ runs[r].session # Some(RequestSession)
                /\ \A q \in RunIds \ {r} : runs[q].session # runs[r].session
        /\ ~ InTask(r) => runs[r].session = None

\* A run keeps the session it holds until its task ends, and the step that
\* ends the task, normally or on a failure, gives it up
C18_Step ==
    \A r \in RunIds :
        InTask(r)
        => /\ InTask(r)' => runs'[r].session = runs[r].session
           /\ ~ InTask(r)' => runs'[r].pc = "done" /\ runs'[r].session = None

\* C18: every dispatched run holds, from the entry of its task to the end of
\* it, one storage session that is not the session of the triggering request
\* and not the session of any other run, and the session is released when
\* the task ends, whether index_* succeeded or failed.
C18_OwnSession == [] C18_Sessions /\ [][C18_Step]_vars

\* Two runs inside their tasks at once, one of them with a failed index_*
C18_Witness ==
    \E r \in RunIds : \E q \in RunIds \ {r} :
        /\ InTask(r) /\ InTask(q)
        /\ runs[r].session # None /\ runs[q].session # None
        /\ runs[q].pc = "returned" /\ runs[q].message \in AbortMessages
\* The last answer was given by the trigger and not by a delete request
\* (a 404 is the same answer from either)
FromTrigger == response.status # 0 /\ response.message # "deleted"

\* The acknowledgment, a type that is not indexed, a failed ownership check
StartedOrValidation == {200, 400, 404}

\* The answer is the acknowledgment or a validation error
C19_OnlyStartedOrValidation ==
    FromTrigger => response.status \in StartedOrValidation

\* The answer is the acknowledgment, a validation error, or the 500 of a
\* handler that failed before it dispatched anything
C19_Answers ==
    FromTrigger
    => /\ response.status \in StartedOrValidation \cup {500}
       /\ response.status = 500
            => /\ response.message = "Failed to initiate indexing"
               /\ response.run = 0
       /\ response.status = 200 => response.run \in RunIds

\* The step that dispatches a run is the one that answers; no later step of
\* the run changes the answer, and a failure in it leaves the run in its task
C19_Step ==
    \A r \in RunIds :
        runs'[r] # runs[r]
        => IF runs[r].pc = "idle"
           THEN /\ runs'[r].pc = "queued"
                /\ response'.status = 200 /\ response'.run = r
           ELSE /\ response' = response
                /\ runs'[r].pc \in {"containers", "returned", "done"}

\* C19 (as stated): the trigger's answer is only ever the acknowledgment or
\* a validation error, it is given before the run executes, and no failure
\* of the run changes it.
C19_StartedOrValidationOnly ==
    [] C19_OnlyStartedOrValidation /\ [][C19_Step]_vars

\* C19 (amended): the trigger's answer is the acknowledgment, a validation
\* error (400, 404) or a 500 "Failed to initiate indexing" raised before
\* anything was dispatched; it is given by the step that dispatches the run,
\* and no step of the run, failed or not, changes it or leaves the task.
C19_AnswerFixedBeforeRun == [] C19_Answers /\ [][C19_Step]_vars

\* A run that aborted after its trigger had answered "started"
C19_Witness ==
    \E r \in RunIds :
        /\ runs[r].pc = "done"
        /\ runs[r].message \in AbortMessages
        /\ response.status = 200 /\ response.run = r
\* The request the next answer is given to passed both ownership checks
ChecksPass ==
    /\ OwnsConnector(response'.user, response'.connector_id)
    /\ OwnsSpace(response'.user, response'.search_space_id)

\* The type of the connector the next answer is about
RequestedType == connectors[response'.connector_id].connector_type

\* Run r is dispatched by the step
Dispatched(r) == runs[r].pc = "idle" /\ runs'[r].pc # "idle"

\* A step that dispatches a run answers "started" to a request that passed
\* both checks for a connector of one of the four types, and dispatches that
\* one run for it
C20_DispatchOnlyIf ==
    \A r \in RunIds :
        Dispatched(r)
        => /\ response'.status = 200 /\ response'.run = r
           /\ ChecksPass
           /\ RequestedType \in {SLACK, NOTION, GITHUB, LINEAR}
           /\ runs'[r].pc = "queued"
           /\ runs'[r].kind = RequestedType
           /\ runs'[r].connector_id = response'.connector_id
           /\ runs'[r].search_space_id = response'.search_space_id
           /\ \A q \in RunIds \ {r} : runs'[q] = runs[q]

\* A step that gives a new answer of the trigger: "started" goes with a
\* dispatch, a 400 with passed checks and another type, a 404 with a failed
\* check, and no answer but "started" dispatches anything
C20_AnswerIf ==
    (response' # response /\ response'.message # "deleted")
    => CASE response'.status = 200 ->
              /\ ChecksPass
              /\ \E r \in RunIds : Dispatched(r)
         [] response'.status = 400 ->
              /\ ChecksPass
              /\ RequestedType \notin {SLACK, NOTION, GITHUB, LINEAR}
              /\ runs' = runs
         [] response'.status = 404 ->
              /\ ~ ChecksPass
              /\ runs' = runs
         [] OTHER ->
              /\ response'.status = 500
              /\ runs' = runs

\* C20: the trigger dispatches a run exactly when the connector check and
\* the search-space check passed and the connector is a Slack, Notion,
\* GitHub or Linear connector; a connector of another type is answered 400
\* and a failed check 404, in both cases without a run; a request
\* dispatches at most one run.
C20_DispatchIffValid == [][C20_DispatchOnlyIf /\ C20_AnswerIf]_vars

\* A connector of a type that is not indexed was answered 400, and no run
\* was ever dispatched
C20_Witness ==
    /\ response.status = 400
    /\ OwnsConnector(response.user, response.connector_id)
    /\ OwnsSpace(response.user, response.search_space_id)
    /\ connectors[response.connector_id].connector_type = "SERPER_API"
    /\ \A r \in RunIds : runs[r].pc = "idle"
\* The connectors other than c that user u has of a type
Others(rows, u, type, c) ==
    {d \in DOMAIN rows \ {c} :
        rows[d].user_id = u /\ rows[d].connector_type = type}

\* No user has two connectors of one type
C17_Unique ==
    \A c \in DOMAIN connectors :
        Others(connectors, connectors[c].user_id,
               connectors[c].connector_type, c) = {}

\* A create or an update answered in a step: when the user has another
\* connector of the requested type the answer is 409, and a request that
\* is not answered 200 leaves the connectors as they were
C17_Step ==
    \A h \in Handlers :
        (requests'[h] # requests[h] /\ requests'[h].stage = "done")
        => LET req == requests'[h]
               other == Others(connectors, req.user, req.connector_type,
                               req.connector_id) # {}
               stored == req.op = "create"
                         \/ OwnsConnector(req.user, req.connector_id)
           IN  /\ (other /\ stored) => req.status = 409
               /\ req.status # 200 => connectors' = connectors
               /\ req.status = 200
                    => /\ req.connector_id \in DOMAIN connectors'
                       /\ connectors'[req.connector_id].user_id = req.user
                       /\ connectors'[req.connector_id].connector_type
                             = req.connector_type

C21_RunTerminates ==
    \A r \in RunIds :
        (runs[r].pc = "queued")
        ~> (runs[r].pc = "done" /\ runs[r].session = None
            /\ runs[r].count \in Nat)

\* A run that went through a loop over two containers, one of them failing,
\* and has ended
C21_Witness ==
    \E r \in RunIds :
        /\ runs[r].pc = "done" /\ runs[r].session = None
        /\ Len(runs[r].channels) = 2
        /\ runs[r].i = 3
        /\ runs[r].skipped # <<>>
\* Run x has gone through all of its containers and index_* has returned
\* normally
Completed(x) ==
    /\ x.pc = "returned"
    /\ x.message \notin AbortMessages
    /\ x.kind \in {SLACK, NOTION}
         => x.channels # <<>> /\ x.i = Len(x.channels) + 1

MetaName(d) ==
    IF d.document_type = SLACK THEN d.document_metadata.channel_name
    ELSE d.document_metadata.page_title

ItemCount(d) ==
    IF "message_count" \in DOMAIN d.document_metadata
    THEN Some(d.document_metadata.message_count)
    ELSE None

\* The documents of the chat and of the wiki provider
PipelineDocs == {d \in documents : d.document_type \in {SLACK, NOTION}}

\* The metadata names a container of the document's run, by id and by name
C23_NamesContainer ==
    \A d \in PipelineDocs :
        /\ DocContainer(d) \in Range(runs[d.run].channels)
        /\ MetaName(d) = ChannelName(DocContainer(d))

\* C23: the metadata of every persisted Slack or Notion document carries
\* the id and the name of a container its run enumerated, and an item count
\* equal to the number of items the container's body was rendered from at
\* some instant of the run.
C23_MetadataRoundTrip ==
    /\ C23_NamesContainer
    /\ \A d \in PipelineDocs :
          \E t \in runs[d.run].started_at[1] .. now :
             ItemCount(d) = Some(Len(Content(runs[d.run], DocContainer(d), t)))
\* Container c gives run r no item to render, whenever the run looks at it
NothingToIndex(r, c) ==
    \A t \in runs[r].started_at[1] .. MaxClock :
        Content(runs[r], c, t) = <<>>

\* The containers without items that a finished run, in a behaviour without
\* any failure, has recorded as skipped
RecordedThoughEmpty(r) ==
    {c \in Range(runs[r].channels) : NothingToIndex(r, c) /\ IsSkipped(r, c)}

\* C24: in a behaviour in which nothing failed, a container without
\* surviving items leaves no document, is not in the skipped list of the
\* finished run, and does not turn the run's message into a non-null one.
C24_EmptyContainerIsNoError ==
    \A r \in RunIds :
        ( /\ Pipelined(r) /\ Finished(r)
          /\ runs[r].channels # <<>>
          /\ faults = 0 )
        => /\ \A c \in Range(runs[r].channels) :
                 NothingToIndex(r, c) => ~ HasDoc(r, c)
           /\ RecordedThoughEmpty(r) = {}
           /\ (\A c \in Range(runs[r].channels) : NothingToIndex(r, c))
                 => runs[r].message = NoMessage
\* The returns made before the credential was found
NoCredential ==
    {"Connector not found or is not a Slack connector",
     "Slack token not found in connector config",
     "Connector not found or is not a Notion connector",
     "Notion integration token not found in connector config"}

\* The containers the loop of run x has gone past
Handled(x) == {x.channels[k] : k \in 1 .. (x.i - 1)}

\* Where a run stands tells which phases it has been through
C25_Phases ==
    \A r \in RunIds :
        Pipelined(r) =>
            LET x == runs[r] IN
            /\ x.message \in NoCredential => x.started_at = None
            /\ x.started_at = None => x.channels = <<>>
            /\ x.channels = <<>>
                 => /\ x.fetched = {} /\ x.i = 1
                    /\ x.pending = <<>> /\ x.skipped = <<>>
                    /\ x.documents_indexed = 0
                    /\ x.pc # "containers"
            /\ x.i \in 1 .. (Len(x.channels) + 1)
            /\ x.fetched \subseteq Handled(x)
            /\ \A d \in Mine(r) : DocContainer(d) \in Handled(x)
            /\ \A k \in DOMAIN x.skipped : x.skipped[k][1] \in Handled(x)
            /\ \A a \in DOMAIN x.pending : \A b \in DOMAIN x.pending :
                  a < b => \E ka \in DOMAIN x.channels :
                              \E kb \in DOMAIN x.channels :
                                 /\ ka < kb
                                 /\ x.channels[ka] = DocContainer(x.pending[a])
                                 /\ x.channels[kb] = DocContainer(x.pending[b])
            /\ (x.pc \in {"returned", "done"} /\ x.channels # <<>>)
                 => x.i = Len(x.channels) + 1
            /\ (x.wrote # None \/ DocsOf(r) # {})
                 => x.pc \in {"returned", "done"}

\* Each step of a run is the next phase: the loop takes the next container
\* of the list and touches nothing of another one, and the commit comes
\* when the list is exhausted
C25_Step ==
    \A r \in RunIds :
        (Pipelined(r) /\ runs'[r] # runs[r])
        => LET old == runs[r]
               new == runs'[r]
           IN  CASE old.pc = "queued" ->
                      new.pc \in {"containers", "returned"}
                 [] old.pc = "containers" /\ old.i <= Len(old.channels) ->
                      /\ new.pc = "containers"
                      /\ new.i = old.i + 1
                      /\ new.channels = old.channels
                      /\ new.fetched \subseteq
                            old.fetched \cup {old.channels[old.i]}
                      /\ new.wrote = old.wrote
                      /\ documents' = documents
                      /\ <<new.start_date, new.end_date, new.started_at>>
                            = <<old.start_date, old.end_date, old.started_at>>
                 [] old.pc = "containers" /\ old.i > Len(old.channels) ->
                      /\ new.pc = "returned"
                      /\ new.fetched = old.fetched
                      /\ new.skipped = old.skipped
                 [] old.pc = "returned" -> new.pc = "done"
                 [] OTHER -> FALSE

\* C25: in every Slack or Notion run the credential is found before the
\* window is calculated, the window before the containers are enumerated,
\* no container is fetched or staged before the enumeration returned a
\* list, the containers are taken one at a time in the order of the list,
\* and the commit and the watermark come after the last container.
C25_PhasesInOrder == [] C25_Phases /\ [][C25_Step]_vars

\* A finished run that fetched its two channels in turn and was stamped
C25_Witness ==
    \E r \in RunIds :
        /\ runs[r].kind = SLACK /\ runs[r].pc = "done"
        /\ Len(runs[r].channels) = 2
        /\ runs[r].fetched = Range(runs[r].channels)
        /\ Cardinality(DocsOf(r)) = 2
        /\ runs[r].wrote # None
\* The persisted documents of the chat provider
SlackDocs == {d \in documents : d.document_type = SLACK}

\* The markdown the summarizer was given for document d
Rendered(d) == d.content[2].CONTENT

\* The messages of channel c in the window of run x at time t that are no
\* bot message, join or leave, in the order of the fetch
Surviving(x, c, t) ==
    SelectSeq(get_history_by_date_range(c, x.start_date_str, x.end_date_str, t),
              LAMBDA m : m.subtype \notin
                            {"bot_message", "channel_join", "channel_leave"})

\* The section of the markdown a message is rendered as
Section(m) == <<"## ", <<"user of", m.ts>>, m.ts, <<"text of", m.ts>>>>

\* C26: every persisted Slack document has a message_count equal to the
\* number of messages fetched in the run's window whose subtype is none of
\* bot_message, channel_join and channel_leave, and its body is the heading
\* followed by exactly one section per such message, in the order of the
\* fetch.
C26_NoiseNeverRendered ==
    \A d \in SlackDocs :
        \E t \in runs[d.run].started_at[1] .. now :
            LET kept == Surviving(runs[d.run], DocContainer(d), t)
            IN  /\ d.document_metadata.message_count = Len(kept)
                /\ Len(Rendered(d)) = 1 + Len(kept)
                /\ \A k \in DOMAIN kept : Rendered(d)[k + 1] = Section(kept[k])

\* A persisted document of a channel whose fetch returned a bot message
\* between two plain messages: two sections, a count of two
C26_Witness ==
    \E d \in SlackDocs :
        /\ d.document_metadata.message_count = 2
        /\ Len(Rendered(d)) = 3
        /\ \E t \in runs[d.run].started_at[1] .. now :
              LET fetched == get_history_by_date_range(
                                 DocContainer(d), runs[d.run].start_date_str,
                                 runs[d.run].end_date_str, t)
              IN  /\ Len(fetched) = 3
                  /\ fetched[2].subtype = "bot_message"
\* The window a Slack run was given when it began: the two dates of
\* "Calculate date range" as the fetches and the metadata carry them
Planned(x) ==
    LET range == SlackDateRange(x.watermark_at_start, x.started_at[1])
    IN  <<SlackFormatDate(range.start_date), SlackFormatDate(range.end_date)>>

\* A Slack run with a window holds the window it began with, each of its
\* documents carries that window, and each was rendered from a fetch with
\* the bounds of that window
C27_Window ==
    \A r \in RunIds :
        (runs[r].kind = SLACK /\ runs[r].started_at # None)
        => LET x == runs[r] IN
           /\ <<x.start_date_str, x.end_date_str>> = Planned(x)
           /\ \A d \in Mine(r) :
                 /\ <<d.document_metadata.start_date,
                      d.document_metadata.end_date>> = Planned(x)
                 /\ \E t \in x.started_at[1] .. now :
                       d.document_metadata.message_count =
                          Len(SelectSeq(
                                get_history_by_date_range(
                                    DocContainer(d), Planned(x)[1],
                                    Planned(x)[2], t),
                                LAMBDA m : m.subtype \notin NoiseSubtypes))

\* No step changes the window of a run that has one, tick of the clock
\* included
C27_Frozen ==
    \A r \in RunIds :
        (runs[r].kind = SLACK /\ runs[r].started_at # None)
        => /\ runs'[r].kind = SLACK
           /\ <<runs'[r].started_at, runs'[r].watermark_at_start,
                runs'[r].start_date, runs'[r].end_date,
                runs'[r].start_date_str, runs'[r].end_date_str>>
              = <<runs[r].started_at, runs[r].watermark_at_start,
                  runs[r].start_date, runs[r].end_date,
                  runs[r].start_date_str, runs[r].end_date_str>>

\* C27: the window of a Slack run is calculated once, when the run begins,
\* and no later step changes it; every fetch of the run is made with its
\* bounds, and every document the run stages or persists carries them as
\* start_date and end_date, however long the run takes.
C27_WindowFixedForRun == [] C27_Window /\ [][C27_Frozen]_vars

\* A run that began on one day and finished on the next, with two documents
\* that carry the window of the day it began
C27_Witness ==
    \E r \in RunIds :
        /\ runs[r].kind = SLACK /\ runs[r].pc = "done"
        /\ runs[r].started_at # None
        /\ Date(runs[r].started_at[1]) < Date(now)
        /\ Cardinality(DocsOf(r)) = 2
        /\ \A d \in DocsOf(r) :
              d.document_metadata.end_date = Date(runs[r].started_at[1])
\* A run stages and persists at most one document per container of its
\* list, and each of them in the search space of the run
C28_Documents ==
    \A r \in RunIds :
        Pipelined(r) =>
            LET x == runs[r] IN
            /\ \A a \in DOMAIN x.pending : \A b \in DOMAIN x.pending :
                  a # b => DocContainer(x.pending[a]) # DocContainer(x.pending[b])
            /\ \A d1 \in DocsOf(r) : \A d2 \in DocsOf(r) :
                  DocContainer(d1) = DocContainer(d2) => d1 = d2
            /\ Cardinality(DocsOf(r)) <= Len(x.channels)
            /\ (Finished(r) /\ DocsOf(r) # {})
                  => x.documents_indexed = Cardinality(DocsOf(r))
            /\ \A d \in Mine(r) :
                  /\ DocContainer(d) \in Range(x.channels)
                  /\ d.search_space_id = x.search_space_id

\* The search space of a run is the one of the request that dispatched it,
\* a space of the user who asked, and stays; a persisted document stays as
\* it is
C28_Step ==
    /\ \A r \in RunIds :
          IF Dispatched(r)
          THEN /\ response'.run = r
               /\ runs'[r].search_space_id = response'.search_space_id
               /\ SpaceOwner(runs'[r].search_space_id) = response'.user
          ELSE runs'[r].search_space_id = runs[r].search_space_id
    /\ documents \subseteq documents'

\* C28: a run persists at most one document per container it enumerated,
\* and every document it persists is in the search space the dispatch was
\* given, never in another one.
C28_OnePerContainerInDestination == [] C28_Documents /\ [][C28_Step]_vars

\* A finished run dispatched to the search space of the second user, with
\* one document for each of its two containers, both in that space
C28_Witness ==
    \E r \in RunIds :
        /\ Pipelined(r) /\ runs[r].pc = "done"
        /\ runs[r].search_space_id \notin SearchSpaces
        /\ Len(runs[r].channels) = 2
        /\ \A k \in 1 .. 2 :
              \E d \in DocsOf(r) :
                 /\ DocContainer(d) = runs[r].channels[k]
                 /\ d.search_space_id = runs[r].search_space_id
\* The METADATA section the summarizer is given for document d names what
\* the stored metadata names
EnvelopeNames(d) ==
    LET m == d.content[2].METADATA IN
    IF d.document_type = SLACK
    THEN /\ m.CHANNEL_NAME = d.document_metadata.channel_name
         /\ m.CHANNEL_ID = d.document_metadata.channel_id
         /\ m.START_DATE = d.document_metadata.start_date
         /\ m.END_DATE = d.document_metadata.end_date
         /\ m.MESSAGE_COUNT = d.document_metadata.message_count
    ELSE /\ m.PAGE_TITLE = d.document_metadata.page_title
         /\ m.PAGE_ID = d.document_metadata.page_id

\* C29: for every staged or persisted Slack or Notion document, the stored
\* content is the summary of the envelope, made of a METADATA section that
\* names the container and a CONTENT section that holds the markdown the
\* run rendered for the container; the stored embedding is the embedding
\* of that summary; and the chunks are the chunker's chunks of the markdown
\* alone, each with its text and its embedding, in the chunker's order.
C29_CapabilitiesFedInFixedWay ==
    \A r \in RunIds :
        Pipelined(r) =>
            \A d \in Mine(r) :
                /\ d.content[1] = "summary"
                /\ DOMAIN d.content[2] = {"METADATA", "CONTENT"}
                /\ EnvelopeNames(d)
                /\ \E t \in runs[r].started_at[1] .. now :
                      Rendered(d) = Body(runs[r], DocContainer(d), t)
                /\ d.embedding = <<"embedding", d.content>>
                /\ Len(d.chunks) \in {0, Len(Rendered(d))}
                /\ \A k \in DOMAIN d.chunks :
                      /\ d.chunks[k].content = Rendered(d)[k]
                      /\ d.chunks[k].embedding = <<"embedding", Rendered(d)[k]>>

\* A persisted document of a page of several blocks: the summary of the
\* envelope, its embedding, and a chunk for the heading and for each block
C29_Witness ==
    \E d \in documents :
        /\ d.document_type = NOTION
        /\ d.content[1] = "summary"
        /\ d.embedding[2] = d.content
        /\ Len(Rendered(d)) > 2
        /\ Len(d.chunks) = Len(Rendered(d))
\* The places of the blocks of the tree: the path of a block is the index of
\* its ancestor at each level, then its own
MaxWidth == IF MaxTop > MaxBlocks THEN MaxTop ELSE MaxBlocks
Paths == UNION {[1 .. n -> 1 .. MaxWidth] : n \in 1 .. MaxDepth}

\* The list of blocks the path p leads into, and the block it ends at
RECURSIVE ListAt(_, _)
ListAt(p, n) ==
    IF n = 1 THEN tree
    ELSE LET above == ListAt(p, n - 1)
         IN  IF p[n - 1] \in DOMAIN above THEN above[p[n - 1]].children
             ELSE <<>>

IsPlace(p) == p[Len(p)] \in DOMAIN ListAt(p, Len(p))
BlockAt(p) == ListAt(p, Len(p))[p[Len(p)]]
Places == {p \in Paths : IsPlace(p)}

\* Pre-order: an ancestor comes before its descendants, and of two blocks
\* in different subtrees the one under the earlier sibling comes first
Before(p, q) ==
    \/ Len(p) < Len(q) /\ \A k \in DOMAIN p : p[k] = q[k]
    \/ \E k \in DOMAIN p \cap DOMAIN q :
          /\ \A j \in 1 .. (k - 1) : p[j] = q[j]
          /\ p[k] < q[k]

\* A block of a type without a branch of its own writes nothing when its
\* content is empty; every other block writes
Writes(p) == BlockAt(p).type # "unsupported" \/ BlockAt(p).content # <<>>
Written == {p \in Places : Writes(p)}

\* The place of what the block at p wrote in the result
IndexOf(p) == 1 + Cardinality({q \in Written : Before(q, p)})

\* The result has one entry per block that writes, in pre-order, each with
\* two spaces per level of its block and the content of its block, and an
\* entry of a block without a branch is the content alone
C30_Rendered ==
    rendered # None
    => LET result == rendered[1] IN
       /\ Len(result) = Cardinality(Written)
       /\ \A p \in Written :
             LET entry == result[IndexOf(p)] IN
             /\ entry.indent = [k \in 1 .. (Len(p) - 1) |-> "  "]
             /\ entry.text[2] = BlockAt(p).content
             /\ BlockAt(p).type = "unsupported"
                   => entry.text = <<"", BlockAt(p).content, "\n\n">>

\* C30: process_blocks returns for every tree of blocks, and its result
\* holds the blocks in pre-order, each block before its children and the
\* children in the order of their list, a block at depth d after d times
\* two spaces; a block of a type without a branch is written as its content
\* when it has one and not at all otherwise, and its children are written
\* at depth d + 1 in both cases.
C30_ProcessBlocks == [] C30_Rendered /\ <> (rendered # None)

\* A rendered tree of three levels whose block at the top has no branch and
\* no content: it wrote nothing, its child and its grandchild did
C30_Witness ==
    /\ rendered # None
    /\ Len(tree) = 1
    /\ tree[1].type = "unsupported" /\ tree[1].content = <<>>
    /\ Len(tree[1].children) = 2
    /\ Len(tree[1].children[1].children) = 1
    /\ <<1>> \notin Written
    /\ {<<1, 1>>, <<1, 1, 1>>, <<1, 2>>} \subseteq Written
    /\ Len(rendered[1]) >= 3
    /\ rendered[1][IndexOf(<<1, 1, 1>>)].indent = <<"  ", "  ">>
\* The count a call has returned is the number of documents it made
\* durable, and nothing is left staged
C31_Count ==
    \A r \in RunIds :
        (Pipelined(r) /\ Finished(r))
        => /\ runs[r].count = Cardinality(DocsOf(r))
           /\ runs[r].pending = <<>>

\* The step in which a call returns: with a commit that went through, the
\* count is the number of staged documents and all of them are durable;
\* with a commit that failed, or without having reached the loop, the count
\* is 0 and no document was added
C31_Return ==
    \A r \in RunIds :
        (Pipelined(r) /\ ~ Finished(r) /\ runs'[r].pc = "returned")
        => LET old == runs[r]
               new == runs'[r]
           IN  IF old.pc = "containers" /\ faults' = faults
               THEN /\ new.count = Len(old.pending)
                    /\ documents' = documents \cup Range(old.pending)
                    /\ Cardinality(Range(old.pending)) = Len(old.pending)
               ELSE /\ new.count = 0
                    /\ documents' = documents

\* C31: the count index_slack_messages / index_notion_pages returns is the
\* number of documents the call made durable: the number of staged
\* documents when the final commit went through, and 0 when the commit
\* failed or the run ended before its loop.
C31_CountIsDurableDocuments == [] C31_Count /\ [][C31_Return]_vars

\* A finished run that returned 2 with its two documents durable, beside a
\* finished run whose commit failed on a staged document and that returned 0
C31_Witness ==
    /\ \E r \in RunIds :
          /\ runs[r].kind = NOTION /\ runs[r].pc = "done"
          /\ runs[r].count = 2 /\ Cardinality(DocsOf(r)) = 2
    /\ \E r \in RunIds :
          /\ runs[r].kind = NOTION /\ runs[r].pc = "done"
          /\ runs[r].message = "Database error"
          /\ runs[r].documents_indexed > 0
          /\ runs[r].count = 0 /\ DocsOf(r) = {}
\* A Slack or Notion run that has written last_indexed_at has all of its
\* documents durable, at least one, and none staged
C32_Written ==
    \A r \in RunIds :
        (Pipelined(r) /\ runs[r].wrote # None)
        => /\ runs[r].pc = "done"
           /\ runs[r].pending = <<>>
           /\ DocsOf(r) # {}
           /\ runs[r].count = Cardinality(DocsOf(r))
           /\ runs[r].documents_indexed = runs[r].count

\* The step in which a run writes last_indexed_at comes after its commit:
\* index_* had returned, the documents were durable before the step, the
\* step adds none, and the connector carries the time of the step
C32_Write ==
    \A r \in RunIds :
        (Pipelined(r) /\ runs'[r].wrote # runs[r].wrote)
        => LET old == runs[r] IN
           /\ old.pc = "returned" /\ old.wrote = None
           /\ old.pending = <<>>
           /\ old.count > 0
           /\ Cardinality({d \in documents : d.run = r}) = old.count
           /\ documents' = documents
           /\ runs'[r].wrote = Some(now)
           /\ connectors'[old.connector_id].last_indexed_at = Some(now)

\* C32: a dispatched Slack or Notion run writes last_indexed_at only after
\* the commit of its documents went through: in no state, whatever other
\* runs and requests did in between, has a run written the watermark while
\* a document of its own is staged and not committed, or was rolled back.
C32_WatermarkAfterCommit == [] C32_Written /\ [][C32_Write]_vars

\* A run that has written the watermark with its documents durable, while
\* another run of the connector holds a staged document not yet committed
C32_Witness ==
    \E r \in RunIds : \E q \in RunIds \ {r} :
        /\ runs[r].kind = SLACK /\ runs[r].wrote # None
        /\ DocsOf(r) # {}
        /\ runs[r].connector_id \in DOMAIN connectors
        /\ connectors[runs[r].connector_id].last_indexed_at = runs[r].wrote
        /\ runs[q].pc = "containers" /\ runs[q].pending # <<>>
        /\ runs[q].wrote = None
\* No step sets the last_indexed_at of a stored connector back: a value
\* that is replaced is replaced by the time of the step, which is not
\* before it; and the clock does not go back
C33_Step ==
    /\ now' >= now
    /\ \A c \in DOMAIN connectors \cap DOMAIN connectors' :
          LET old == connectors[c].last_indexed_at
              new == connectors'[c].last_indexed_at
          IN  /\ old # None => new # None /\ new[1] >= old[1]
              /\ new # old => new = Some(now)

\* The watermark of a connector is the latest write of its runs and is not
\* ahead of the clock
C33_Latest ==
    \A c \in DOMAIN connectors :
        /\ connectors[c].last_indexed_at # None
              => connectors[c].last_indexed_at[1] <= now
        /\ \A r \in RunIds :
              (runs[r].connector_id = c /\ runs[r].wrote # None)
              => /\ connectors[c].last_indexed_at # None
                 /\ runs[r].wrote[1] <= connectors[c].last_indexed_at[1]

====
